---- MODULE Spec2Model ----
(***************************************************************************)
(* State-machine model of the two WebSocket push servers of the            *)
(* repository:                                                             *)
(*   "simple"  simple-ws-push/backend/server.js (in-process task runner)   *)
(*   "queued"  system-with-MessageQ/backend/src/server.js (RabbitMQ)       *)
(* together with the token verifier, the heartbeat timers, the task        *)
(* processors and the message-queue client they use, and of three parts    *)
(* that are modelled on their own: the batch sender of the simple task     *)
(* processor, the WebSocket clients, the consumers of the queue client,    *)
(* the reconnect backoff of the WebSocket client, the data requests of     *)
(* one connection in the order of their arrival, and a client together     *)
(* with the server side of its connections.                                *)
(***************************************************************************)
EXTENDS Integers, Sequences, FiniteSets, TLC

(***************************************************************************)
(* Bounds of the model                                                     *)
(***************************************************************************)
MaxTicks == 7
MaxItems == 2
MaxDataset == 12
MaxSockets == 2
MaxDeliveries == 4
MaxQueued == 2
MaxAttempts == 9
MaxRequests == 3
MaxInFlight == 2

(***************************************************************************)
(* Program constants                                                       *)
(***************************************************************************)
WS_HEARTBEAT_INTERVAL == 30000
heartbeatTimeout == 60000
HeartbeatCheckPeriod == 10000
ExpiresIn == 3600000

Null == "null"
Variants == {"simple", "queued"}
Users == {"1", "2"}
Conns == {1, 2}
TimedConns == {1}
TaskIds == {1}
ReqIds == {"req-1"}

\* The clock advances in steps that divide the heartbeat periods of the
\* variant: 15000 ms (half an interval) for the simple server, whose timer
\* fires every 30000 ms, and 10000 ms for the queued server, whose check
\* runs every 10000 ms.
TimeStep(v) == IF v = "simple" THEN WS_HEARTBEAT_INTERVAL \div 2 ELSE HeartbeatCheckPeriod

\* The clock starts one token lifetime after the epoch, so that a token
\* issued before the servers started can expire during a run.
StartTime == ExpiresIn
EndTime(v) == StartTime + MaxTicks * TimeStep(v)

(***************************************************************************)
(* Tokens: jwt.sign / jwt.verify                                           *)
(***************************************************************************)
\* jwt.sign(payload, secret, {expiresIn}): a signed payload with an expiry.
generateToken(userId, iat) == [userId |-> userId, sig |-> "good", exp |-> iat + ExpiresIn]

\* A token whose signature part was altered after it was issued.
Tamper(t) == [t EXCEPT !.sig = "bad"]

\* The token field of a frame that has none (message.token is undefined).
NoToken == [userId |-> Null, sig |-> "none", exp |-> 0]

\* Tokens the clients hold: fresh ones for each user, one issued for user
\* "1" a full lifetime before the server started (expired), a tampered
\* one, and none at all (the auth frame has no token field).
Tokens ==
  {generateToken(u, StartTime) : u \in Users}
    \cup {generateToken("1", 0)}
    \cup {Tamper(generateToken("1", StartTime))}
    \cup {NoToken}

\* A token of user "1" that expires while the clock runs.
ExpiringToken == generateToken("1", WS_HEARTBEAT_INTERVAL)

\* jwt.verify inside try/catch: the decoded payload, or null (Invalid) when
\* the signature does not match or the token has expired.
Invalid == [valid |-> FALSE, userId |-> Null]
Decoded(token) == [valid |-> TRUE, userId |-> token.userId]

\* verifyToken without the expiry check / without the signature check.
verifyTokenIgnoreExpiry(token, t) ==
  IF token.sig = "good" THEN Decoded(token) ELSE Invalid

verifyTokenIgnoreSignature(token, t) ==
  IF t < token.exp THEN Decoded(token) ELSE Invalid

verifyToken(token, t) ==
  IF token.sig = "good" /\ t < token.exp THEN Decoded(token) ELSE Invalid

(***************************************************************************)
(* Frames                                                                  *)
(***************************************************************************)
\* A frame the server writes.  clientId is 0 in every frame but welcome.
Frame(type, userId, requestId, taskId, batchNumber) ==
  [type |-> type, userId |-> userId, requestId |-> requestId, taskId |-> taskId,
   batchNumber |-> batchNumber, clientId |-> 0]

\* A welcome frame that does not name the connection.
WelcomeFrameAnonymous(c) == Frame("welcome", Null, Null, 0, 0)

\* The welcome frame of connection c: its clientId is the id uuidv4()
\* generated for the connection (the model's connection number).
WelcomeFrame(c) == [Frame("welcome", Null, Null, 0, 0) EXCEPT !.clientId = c]

\* What a client can send: text that is not JSON, or a JSON object with a
\* type (and a token or a requestId where the type has one).
BadJson == [json |-> FALSE, type |-> Null, token |-> NoToken, requestId |-> Null]
NoFrame == [json |-> FALSE, type |-> "none", token |-> NoToken, requestId |-> Null]
Msg(type, token, requestId) ==
  [json |-> TRUE, type |-> type, token |-> token, requestId |-> requestId]
InFrames ==
  {BadJson}
    \cup {Msg("auth", t, Null) : t \in Tokens}
    \cup {Msg(ty, NoToken, Null) : ty \in {"ping", "pong", "subscribe"}}
    \cup {Msg("request_data", NoToken, r) : r \in ReqIds}
TimedInFrames == InFrames \cup {Msg("auth", ExpiringToken, Null)}

(***************************************************************************)
(* State                                                                   *)
(***************************************************************************)
VARIABLES
  variant,          \* which server is running
  now,              \* Date.now()
  ws,               \* ws.readyState of each connection ("NONE" before accept)
  clientState,      \* clientState of each connection: userId, authenticated, lastHeartbeat
  clients,          \* queued: keys of this.clients
  userConnections,  \* userId -> connections, in insertion order (a JS Map of Sets)
  timer,            \* the setInterval of each connection: active, next firing time,
                    \* and whether its check has terminated the connection
  tasks,            \* simple: taskProcessor.tasks; queued: the tasks published so far
                    \* (registeredAtSubmit remembers who was registered at submission)
  taskQueue,        \* queued: task_queue of the broker
  resultQueue,      \* queued: task_results of the broker
  mq,               \* queued: the server's MessageQueue client
  sendLog,          \* the sendToClient calls of the last handler, in order
  lastEvent,        \* the last handler that ran and what it returned
  lastFrameAt,      \* time the last frame (of any kind) arrived on each connection
  batchRun,         \* one run of _sendDataInBatches: its items, counters and results
  wsClient,         \* a client object (WSClient or TestWSClient) and its sockets
  clientObs,        \* the last client handler: its frame, callbacks invoked, frames sent
  consumer,         \* the broker queues and the deliveries to consumeTasks/consumeResults
  backoff,          \* a WSClient whose reconnect attempts fail: the delays it has scheduled
  intake,           \* the request_data frames of one connection: arrived, handled, answered
  session           \* a WSClient, the server side of its connections, the frames in flight

serverVars == <<variant, now, ws, clientState, clients, userConnections, timer, tasks,
                taskQueue, resultQueue, mq, sendLog, lastEvent, lastFrameAt>>
unitVars == <<batchRun, wsClient, clientObs, consumer, backoff, intake, session>>
vars == <<serverVars, unitVars>>

(***************************************************************************)
(* JS Map / Set helpers.  A Set iterates in insertion order, so a set of    *)
(* connections is a sequence without repetitions.                          *)
(***************************************************************************)
Range(s) == {s[i] : i \in 1..Len(s)}
SetAdd(s, x) == IF x \in Range(s) THEN s ELSE Append(s, x)
SetDelete(s, x) == SelectSeq(s, LAMBDA y : y # x)
MapSet(m, k, v) == [x \in DOMAIN m \cup {k} |-> IF x = k THEN v ELSE m[x]]
MapDelete(m, k) == [x \in DOMAIN m \ {k} |-> m[x]]
EmptyMap == [x \in {} |-> <<>>]

\* userConnections.get(userId) with "no such key" read as the empty set.
connectionsFor(uc, userId) == IF userId \in DOMAIN uc THEN uc[userId] ELSE <<>>

(***************************************************************************)
(* Timing of the heartbeat monitor                                         *)
(***************************************************************************)
\* Period of the setInterval that checks a connection.
CheckPeriod(v) == IF v = "simple" THEN WS_HEARTBEAT_INTERVAL ELSE HeartbeatCheckPeriod
\* Idle time above which the check terminates the connection.
Timeout(v) == IF v = "simple" THEN 2 * WS_HEARTBEAT_INTERVAL ELSE heartbeatTimeout

(***************************************************************************)
(* sendToClient / sendToUser                                               *)
(***************************************************************************)
\* One sendToClient call: ws.send runs only on an OPEN socket; when it
\* throws (fault), the catch turns the exception into "return false".
\* The result is the return value, whether an exception left the function,
\* and the record of the call.
\* sendToClient without its try/catch: the exception of ws.send leaves it.
sendToClientNoCatch(readyState, c, data, fault) ==
  IF readyState = "OPEN"
    THEN IF fault
           THEN [ok |-> FALSE, threw |-> TRUE,
                 log |-> <<[to |-> c, frame |-> data, outcome |-> "threw"]>>]
           ELSE [ok |-> TRUE, threw |-> FALSE,
                 log |-> <<[to |-> c, frame |-> data, outcome |-> "sent"]>>]
    ELSE [ok |-> FALSE, threw |-> FALSE,
          log |-> <<[to |-> c, frame |-> data, outcome |-> "notopen"]>>]

sendToClient(readyState, c, data, fault) ==
  IF readyState = "OPEN"
    THEN IF fault
           THEN [ok |-> FALSE, threw |-> FALSE,
                 log |-> <<[to |-> c, frame |-> data, outcome |-> "threw"]>>]
           ELSE [ok |-> TRUE, threw |-> FALSE,
                 log |-> <<[to |-> c, frame |-> data, outcome |-> "sent"]>>]
    ELSE [ok |-> FALSE, threw |-> FALSE,
          log |-> <<[to |-> c, frame |-> data, outcome |-> "notopen"]>>]

\* The for-of loop of sendToUser over the user's connections.  The simple
\* server keeps the clientState objects themselves in the set; the queued
\* server keeps client ids and skips an id that this.clients no longer has.
\* An exception leaving sendToClient would end the loop.
\* A loop that serves only the first connection of the set.
sendLoopFirstOnly(v, conns, readyStates, known, data, faults) ==
  IF conns = <<>> \/ (v = "queued" /\ Head(conns) \notin known)
    THEN [count |-> 0, threw |-> FALSE, log |-> <<>>]
    ELSE LET r == sendToClient(readyStates[Head(conns)], Head(conns), data,
                               Head(conns) \in faults)
         IN  [count |-> IF r.ok THEN 1 ELSE 0, threw |-> r.threw, log |-> r.log]

RECURSIVE sendLoop(_, _, _, _, _, _)
sendLoop(v, conns, readyStates, known, data, faults) ==
  IF conns = <<>>
    THEN [count |-> 0, threw |-> FALSE, log |-> <<>>]
    ELSE LET c == Head(conns)
             skip == v = "queued" /\ c \notin known
             r == sendToClient(readyStates[c], c, data, c \in faults)
             rest == sendLoop(v, Tail(conns), readyStates, known, data, faults)
         IN  IF skip THEN rest
             ELSE IF r.threw THEN [count |-> 0, threw |-> TRUE, log |-> r.log]
             ELSE [count |-> (IF r.ok THEN 1 ELSE 0) + rest.count,
                   threw |-> rest.threw,
                   log |-> r.log \o rest.log]

\* sendToUser(userId, data): 0 without any write when the user has no
\* entry or an empty one, else the number of successful sendToClient calls.
sendToUser(v, uc, readyStates, known, userId, data, faults) ==
  IF userId \notin DOMAIN uc \/ Len(uc[userId]) = 0
    THEN [count |-> 0, threw |-> FALSE, log |-> <<>>]
    ELSE sendLoop(v, uc[userId], readyStates, known, data, faults)

(***************************************************************************)
(* Registry updates of handleAuth and of the close handler                 *)
(***************************************************************************)
\* A registration that adds the connection without looking whether the
\* user's set has it already.
registerAppend(uc, userId, c) ==
  MapSet(uc, userId, Append(connectionsFor(uc, userId), c))

\* handleAuth: create the user's set if absent, then add the connection.
register(uc, userId, c) ==
  LET m == IF userId \in DOMAIN uc THEN uc ELSE MapSet(uc, userId, <<>>)
  IN  MapSet(m, userId, SetAdd(m[userId], c))

\* close handler: remove the connection from the set of clientState.userId
\* and drop the user's entry when the set became empty.
unregister(uc, userId, c) ==
  IF userId # Null /\ userId \in DOMAIN uc
    THEN LET s == SetDelete(uc[userId], c)
         IN  IF Len(s) = 0 THEN MapDelete(uc, userId) ELSE MapSet(uc, userId, s)
    ELSE uc

(***************************************************************************)
(* Events                                                                  *)
(***************************************************************************)
\* What the last handler was: its kind, the connection and frame it
\* handled, the user it dispatched to, the value sendToUser returned,
\* whether an exception left the handler, and the broker acknowledgement.
Event(kind, conn, frame, userId, taskId, ret, threw, ack) ==
  [kind |-> kind, conn |-> conn, frame |-> frame, userId |-> userId,
   taskId |-> taskId, ret |-> ret, threw |-> threw, ack |-> ack]
ConnEvent(kind, c, frame) == Event(kind, c, frame, Null, 0, 0, FALSE, "none")

NoTask == [userId |-> Null, requestId |-> Null, registeredAtSubmit |-> {}, status |-> "none",
           stage |-> "none", totalItems |-> 0, processedItems |-> 0, batchNumber |-> 0]

(***************************************************************************)
(* State of the parts modelled on their own                                *)
(***************************************************************************)
\* _sendDataInBatches before it was called: no items, no task, no result.
NoRun == [items |-> <<>>, task |-> NoTask, results |-> <<>>]

\* A frame the client receives: text that is not JSON, or a JSON object
\* with a type, a requestId at the top level (request_accepted, error), a
\* payload with a requestId and data.isFinal (data), a userId (auth_success).
ServerFrame(json, type, requestId, payloadRequestId, isFinal, userId) ==
  [json |-> json, type |-> type, requestId |-> requestId,
   payloadRequestId |-> payloadRequestId, isFinal |-> isFinal, userId |-> userId]
NoServerFrame == ServerFrame(FALSE, "none", Null, Null, FALSE, Null)

\* Before `new WSClient(...)` / `new TestWSClient(...)`.  The fields of
\* both classes: socket is this.socket / this.ws ("null" or its
\* readyState); requestCallbacks is the Map of WSClient, messageHandlers
\* the Map of TestWSClient (its handlers are all one-shot, so the keys) and
\* requestTimeouts its pending 30 s timers.  reconnectTimers counts the
\* pending reconnect timeouts, orphans the sockets the client no longer
\* refers to whose close event is still to come, sockets the sockets
\* created so far and issued the request ids uuidv4() has handed out.
NoClient ==
  [kind |-> "none", socket |-> "null", connected |-> FALSE, authenticated |-> FALSE,
   userId |-> Null, isConnecting |-> FALSE, reconnectAttempts |-> 0,
   heartbeatTimer |-> FALSE, authToken |-> FALSE, requestCallbacks |-> EmptyMap,
   messageHandlers |-> {}, requestTimeouts |-> {}, reconnectTimers |-> 0,
   orphans |-> 0, sockets |-> 0, issued |-> {}]

\* What the last client handler was and did: the frame it handled, whether
\* the frame's request id had an entry when it arrived, the callbacks it
\* invoked and the frames it sent to the server, in order.
ClientEvent(kind, frame, matched, called, sent) ==
  [kind |-> kind, frame |-> frame, matched |-> matched, called |-> called, sent |-> sent]

\* A delivery a consumer callback has finished with: its delivery tag, its
\* queue, how the handling ended ("returned", "threw", or "parse" when
\* JSON.parse rejected the content) and the channel calls made for it.
Settled(tag, queue, handler, calls) ==
  [tag |-> tag, queue |-> queue, handler |-> handler, calls |-> calls]

\* The broker before anything was published: both queues empty, no
\* delivery made (tag 0), no task delivery being handled, none settled.
NoDeliveries ==
  [taskQueue |-> <<>>, resultQueue |-> <<>>, tag |-> 0,
   handling |-> [tag |-> 0, content |-> "none"],
   last |-> Settled(0, "none", "none", <<>>)]

\* Before `new WSClient(url, options)`: no reconnect interval, no attempt,
\* no reconnect timer pending, no delay scheduled.
NoBackoff == [reconnectInterval |-> 0, reconnectAttempts |-> 0, timer |-> FALSE, delays |-> <<>>]

\* An authenticated connection on which no request_data frame has arrived:
\* none handled, no task created or published, no promise job pending,
\* no reply written.
NoIntake == [arrived |-> 0, handled |-> 0, tasks |-> <<>>, jobs |-> <<>>, written |-> <<>>]

\* The server side of a connection that was not accepted yet.
NoServerConn == [ws |-> "NONE", userId |-> Null, authenticated |-> FALSE]

\* No client object yet, no connection accepted, no user registered, no
\* frame in flight in either direction.
NoSession ==
  [client |-> NoClient, token |-> NoToken,
   srv |-> [c \in 1..MaxSockets |-> NoServerConn],
   userConnections |-> EmptyMap, toServer |-> <<>>, toClient |-> <<>>]

Init ==
  /\ variant \in Variants
  /\ now = StartTime
  /\ ws = [c \in Conns |-> "NONE"]
  /\ clientState = [c \in Conns |->
       [userId |-> Null, authenticated |-> FALSE, lastHeartbeat |-> 0]]
  /\ clients = {}
  /\ userConnections = EmptyMap
  /\ timer = [c \in Conns |-> [active |-> FALSE, next |-> 0, timedOut |-> FALSE]]
  /\ tasks = [t \in TaskIds |-> NoTask]
  /\ taskQueue = <<>>
  /\ resultQueue = <<>>
  /\ mq = [connected |-> FALSE, consuming |-> FALSE, started |-> FALSE]
  /\ sendLog = <<>>
  /\ lastEvent = ConnEvent("init", 0, NoFrame)
  /\ lastFrameAt = [c \in Conns |-> 0]
  /\ batchRun = NoRun
  /\ wsClient = NoClient
  /\ clientObs = ClientEvent("init", NoServerFrame, FALSE, <<>>, <<>>)
  /\ consumer = NoDeliveries
  /\ backoff = NoBackoff
  /\ intake = NoIntake
  /\ session = NoSession

(***************************************************************************)
(* Connection accept: wss.on('connection')                                 *)
(***************************************************************************)
Accept(c, fault) ==
  /\ ws[c] = "NONE"
  /\ \A d \in Conns : d < c => ws[d] # "NONE"
  /\ ws' = [ws EXCEPT ![c] = "OPEN"]
  /\ clientState' = [clientState EXCEPT ![c] =
       [userId |-> Null, authenticated |-> FALSE, lastHeartbeat |-> now]]
  /\ clients' = IF variant = "queued" THEN clients \cup {c} ELSE clients
  /\ timer' = [timer EXCEPT ![c] = [active |-> TRUE, next |-> now + CheckPeriod(variant),
                                    timedOut |-> FALSE]]
  /\ sendLog' = sendToClient("OPEN", c, WelcomeFrame(c), fault).log
  /\ lastEvent' = ConnEvent("connection", c, NoFrame)
  /\ lastFrameAt' = [lastFrameAt EXCEPT ![c] = now]
  /\ UNCHANGED <<unitVars, variant, now, userConnections, tasks, taskQueue, resultQueue, mq>>

(***************************************************************************)
(* Message handling: ws.on('message') / _handleMessage                     *)
(***************************************************************************)
\* Effect of a handler on one connection's clientState and on the registry.
Touch(c) == [clientState EXCEPT ![c].lastHeartbeat = now]

\* A frame that JSON.parse rejects.  Both servers answer with an error
\* frame; the assignment to lastHeartbeat comes after the parse and is
\* not reached.
MessageBadJson(c, fault) ==
  /\ ws[c] = "OPEN"
  /\ sendLog' = sendToClient(ws[c], c, Frame("error", Null, Null, 0, 0), fault).log
  /\ lastEvent' = ConnEvent("message", c, BadJson)
  /\ lastFrameAt' = [lastFrameAt EXCEPT ![c] = now]
  /\ UNCHANGED <<unitVars, variant, now, ws, clientState, clients, userConnections, timer,
                 tasks, taskQueue, resultQueue, mq>>

\* handleAuth / _handleAuth: the user id the frame authenticates, or Null
\* when the token is missing or verifyToken rejects it.
authUser(m, t) ==
  IF m.token = NoToken THEN Null
  ELSE LET decoded == verifyToken(m.token, t)
       IN  IF ~decoded.valid THEN Null ELSE decoded.userId

MessageAuth(c, m, fault) ==
  /\ ws[c] = "OPEN"
  /\ m.type = "auth"
  /\ LET userId == authUser(m, now)
     IN  IF userId = Null
           THEN /\ clientState' = Touch(c)
                /\ userConnections' = userConnections
                /\ sendLog' = sendToClient(ws[c], c,
                                Frame("auth_failure", Null, Null, 0, 0), fault).log
           ELSE /\ clientState' = [Touch(c) EXCEPT ![c].userId = userId,
                                                   ![c].authenticated = TRUE]
                /\ userConnections' = register(userConnections, userId, c)
                /\ sendLog' = sendToClient(ws[c], c,
                                Frame("auth_success", userId, Null, 0, 0), fault).log
  /\ lastEvent' = ConnEvent("message", c, m)
  /\ lastFrameAt' = [lastFrameAt EXCEPT ![c] = now]
  /\ UNCHANGED <<unitVars, variant, now, ws, clients, timer, tasks, taskQueue, resultQueue, mq>>

\* ping: the queued server answers with a pong; the simple server has no
\* case for it and answers with the error frame of its default branch.
MessagePing(c, fault) ==
  /\ ws[c] = "OPEN"
  /\ clientState' = Touch(c)
  /\ sendLog' = sendToClient(ws[c], c,
                  Frame(IF variant = "queued" THEN "pong" ELSE "error", Null, Null, 0, 0),
                  fault).log
  /\ lastEvent' = ConnEvent("message", c, Msg("ping", NoToken, Null))
  /\ lastFrameAt' = [lastFrameAt EXCEPT ![c] = now]
  /\ UNCHANGED <<unitVars, variant, now, ws, clients, userConnections, timer, tasks,
                 taskQueue, resultQueue, mq>>

\* Frames that only refresh lastHeartbeat: pong, and in the queued server
\* every type without a case (its default branch only logs).  In the simple
\* server a type without a case is answered with an error frame.
MessageOther(c, type, fault) ==
  /\ ws[c] = "OPEN"
  /\ type \in {"pong", "subscribe"}
  /\ clientState' = Touch(c)
  /\ sendLog' = IF variant = "simple" /\ type # "pong"
                  THEN sendToClient(ws[c], c, Frame("error", Null, Null, 0, 0), fault).log
                  ELSE <<>>
  /\ lastEvent' = ConnEvent("message", c, Msg(type, NoToken, Null))
  /\ lastFrameAt' = [lastFrameAt EXCEPT ![c] = now]
  /\ UNCHANGED <<unitVars, variant, now, ws, clients, userConnections, timer, tasks,
                 taskQueue, resultQueue, mq>>

(***************************************************************************)
(* request_data: handleDataRequest / _handleDataRequest                    *)
(***************************************************************************)
\* A generator that hands out ids of tasks that exist already.
FreshTaskIdsReused == TaskIds

\* uuidv4(): an id no task has used yet.
FreshTaskIds == {t \in TaskIds : tasks[t].status = "none" /\ \A u \in TaskIds : u < t => tasks[u].status # "none"}

\* A request handler without the authentication check: the request of an
\* unauthenticated connection is accepted like any other.
MessageRequestUnauthAccepted(c, m, fault) ==
  /\ ws[c] = "OPEN"
  /\ m.type = "request_data"
  /\ ~clientState[c].authenticated
  /\ \E t \in FreshTaskIds :
       /\ tasks' = [tasks EXCEPT ![t] =
            [NoTask EXCEPT !.requestId = m.requestId, !.status = "processing",
                           !.stage = "reading"]]
       /\ sendLog' = sendToClient(ws[c], c,
                       Frame("request_accepted", Null, m.requestId, t, 0), fault).log
  /\ clientState' = Touch(c)
  /\ lastEvent' = ConnEvent("message", c, m)
  /\ lastFrameAt' = [lastFrameAt EXCEPT ![c] = now]
  /\ UNCHANGED <<unitVars, variant, now, ws, clients, userConnections, timer,
                 taskQueue, resultQueue, mq>>

\* A request on a connection that has not authenticated: one error frame
\* (the simple server's carries the requestId, the queued server's not).
MessageRequestUnauth(c, m, fault) ==
  /\ ws[c] = "OPEN"
  /\ m.type = "request_data"
  /\ ~clientState[c].authenticated
  /\ clientState' = Touch(c)
  /\ sendLog' = sendToClient(ws[c], c,
                  Frame("error", Null, IF variant = "simple" THEN m.requestId ELSE Null, 0, 0),
                  fault).log
  /\ lastEvent' = ConnEvent("message", c, m)
  /\ lastFrameAt' = [lastFrameAt EXCEPT ![c] = now]
  /\ UNCHANGED <<unitVars, variant, now, ws, clients, userConnections, timer, tasks,
                 taskQueue, resultQueue, mq>>

\* Simple server: createTask, request_accepted, processTask (the task goes
\* to 'processing' and its data file is read asynchronously).
MessageRequestSimple(c, m, fault) ==
  /\ variant = "simple"
  /\ ws[c] = "OPEN"
  /\ m.type = "request_data"
  /\ clientState[c].authenticated
  /\ \E t \in FreshTaskIds :
       /\ tasks' = [tasks EXCEPT ![t] =
            [userId |-> clientState[c].userId, requestId |-> m.requestId,
             registeredAtSubmit |-> Range(connectionsFor(userConnections, clientState[c].userId)),
             status |-> "processing", stage |-> "reading", totalItems |-> 0,
             processedItems |-> 0, batchNumber |-> 0]]
       /\ sendLog' = sendToClient(ws[c], c,
                       Frame("request_accepted", Null, m.requestId, t, 0), fault).log
  /\ clientState' = Touch(c)
  /\ lastEvent' = ConnEvent("message", c, m)
  /\ lastFrameAt' = [lastFrameAt EXCEPT ![c] = now]
  /\ UNCHANGED <<unitVars, variant, now, ws, clients, userConnections, timer,
                 taskQueue, resultQueue, mq>>

\* Queued server: publish the task when the queue client is connected and
\* answer request_accepted once sendTask resolved; answer with an error
\* frame when it is not connected or the publish fails (published = FALSE).
MessageRequestQueued(c, m, fault, published) ==
  /\ variant = "queued"
  /\ ws[c] = "OPEN"
  /\ m.type = "request_data"
  /\ clientState[c].authenticated
  /\ IF mq.connected /\ published
       THEN \E t \in FreshTaskIds :
              /\ tasks' = [tasks EXCEPT ![t] =
                   [userId |-> clientState[c].userId, requestId |-> m.requestId,
                    registeredAtSubmit |->
                      Range(connectionsFor(userConnections, clientState[c].userId)),
                    status |-> "queued", stage |-> "none",
                    totalItems |-> 0, processedItems |-> 0, batchNumber |-> 0]]
              /\ taskQueue' = Append(taskQueue,
                   [taskId |-> t, userId |-> clientState[c].userId,
                    requestId |-> m.requestId])
              /\ sendLog' = sendToClient(ws[c], c,
                              Frame("request_accepted", Null, m.requestId, t, 0), fault).log
       ELSE /\ UNCHANGED <<tasks, taskQueue>>
            /\ sendLog' = sendToClient(ws[c], c,
                            Frame("error", Null, m.requestId, 0, 0), fault).log
  /\ clientState' = Touch(c)
  /\ lastEvent' = ConnEvent("message", c, m)
  /\ lastFrameAt' = [lastFrameAt EXCEPT ![c] = now]
  /\ UNCHANGED <<unitVars, variant, now, ws, clients, userConnections, timer, resultQueue, mq>>

(***************************************************************************)
(* Simple server: the task processor and the completion callback           *)
(***************************************************************************)
\* The completion callback of handleDataRequest: sendToUser(userId, data).
Dispatch(userId, data, faults) ==
  LET r == sendToUser(variant, userConnections, ws, clients, userId, data, faults)
  IN  /\ sendLog' = r.log
      /\ lastEvent' = Event("dispatch", 0, NoFrame, userId, data.taskId, r.count,
                            r.threw, "none")

\* fs.readFile failed or the file is not JSON: one result with status
\* 'error' goes to the callback; task.status is not assigned.
ReadFileError(t, faults) ==
  /\ variant = "simple"
  /\ tasks[t].stage = "reading"
  /\ Dispatch(tasks[t].userId,
              Frame("data", tasks[t].userId, tasks[t].requestId, t, 0), faults)
  /\ tasks' = [tasks EXCEPT ![t].stage = "done"]
  /\ UNCHANGED <<unitVars, variant, now, ws, clientState, clients, userConnections, timer,
                 taskQueue, resultQueue, mq, lastFrameAt>>

\* The file holds no item: one 'completed' result and nothing else.
ReadFileEmpty(t, faults) ==
  /\ variant = "simple"
  /\ tasks[t].stage = "reading"
  /\ Dispatch(tasks[t].userId,
              Frame("data", tasks[t].userId, tasks[t].requestId, t, 0), faults)
  /\ tasks' = [tasks EXCEPT ![t].stage = "done"]
  /\ UNCHANGED <<unitVars, variant, now, ws, clientState, clients, userConnections, timer,
                 taskQueue, resultQueue, mq, lastFrameAt>>

\* sendNextBatch: a batch of 1..10 items (at most the remaining ones) goes
\* to the callback; the task completes with the batch that exhausts the
\* items, else the next batch is scheduled.
batchStep(task, size) ==
  LET processed == task.processedItems + size
  IN  [task EXCEPT !.processedItems = processed,
                   !.batchNumber = task.batchNumber + 1,
                   !.status = IF processed < task.totalItems THEN task.status ELSE "completed",
                   !.stage = IF processed < task.totalItems THEN "batching" ELSE "done"]

\* The file was read: N >= 1 items; the first batch is sent at once.
ReadFileItems(t, N, size, faults) ==
  /\ variant = "simple"
  /\ tasks[t].stage = "reading"
  /\ N \in 1..MaxItems
  /\ size \in 1..N
  /\ LET task == batchStep([tasks[t] EXCEPT !.totalItems = N], size)
     IN  /\ tasks' = [tasks EXCEPT ![t] = task]
         /\ Dispatch(task.userId,
                     Frame("data", task.userId, task.requestId, t, task.batchNumber), faults)
  /\ UNCHANGED <<unitVars, variant, now, ws, clientState, clients, userConnections, timer,
                 taskQueue, resultQueue, mq, lastFrameAt>>

SendNextBatch(t, size, faults) ==
  /\ variant = "simple"
  /\ tasks[t].stage = "batching"
  /\ size \in 1..(tasks[t].totalItems - tasks[t].processedItems)
  /\ LET task == batchStep(tasks[t], size)
     IN  /\ tasks' = [tasks EXCEPT ![t] = task]
         /\ Dispatch(task.userId,
                     Frame("data", task.userId, task.requestId, t, task.batchNumber), faults)
  /\ UNCHANGED <<unitVars, variant, now, ws, clientState, clients, userConnections, timer,
                 taskQueue, resultQueue, mq, lastFrameAt>>

(***************************************************************************)
(* Queued server: worker, result consumer, queue client                    *)
(***************************************************************************)
\* consumeTasks + processTask of the worker: the result is published to
\* the result queue and the task acknowledged; when processing or the
\* publish throws (ok = FALSE) the task is nacked and stays queued.
WorkerProcessTask(ok) ==
  /\ variant = "queued"
  /\ taskQueue # <<>>
  /\ LET task == Head(taskQueue)
     IN  IF ok
           THEN /\ resultQueue' = Append(resultQueue,
                     [userId |-> task.userId, taskId |-> task.taskId,
                      requestId |-> task.requestId])
                /\ taskQueue' = Tail(taskQueue)
                /\ tasks' = [tasks EXCEPT ![task.taskId].status = "completed"]
                /\ lastEvent' = Event("consumeTasks", 0, NoFrame, task.userId, task.taskId, 0,
                                      FALSE, "ack")
           ELSE /\ UNCHANGED <<resultQueue, taskQueue, tasks>>
                /\ lastEvent' = Event("consumeTasks", 0, NoFrame, task.userId, task.taskId, 0,
                                      TRUE, "nack")
  /\ sendLog' = <<>>
  /\ UNCHANGED <<unitVars, variant, now, ws, clientState, clients, userConnections, timer,
                 mq, lastFrameAt>>

\* consumeResults: ack when the callback returned, nack when it threw.
\* The number of connections the result reached plays no part.
ackDecisionRequeueUndelivered(threw, delivered) ==
  IF threw \/ delivered = 0 THEN "nack" ELSE "ack"

ackDecision(threw, delivered) == IF threw THEN "nack" ELSE "ack"

\* The result consumer of the server: the callback hands the result to
\* _sendToUser and ignores the count it returns; then the message is
\* acknowledged (removed) or, after an exception, nacked (requeued).
ConsumeResult(faults) ==
  /\ variant = "queued"
  /\ mq.consuming
  /\ resultQueue # <<>>
  /\ LET msg == Head(resultQueue)
         r == sendToUser(variant, userConnections, ws, clients, msg.userId,
                         Frame("data", msg.userId, msg.requestId, msg.taskId, 0), faults)
         decision == ackDecision(r.threw, r.count)
     IN  /\ sendLog' = r.log
         /\ lastEvent' = Event("consumeResults", 0, NoFrame, msg.userId, msg.taskId,
                               r.count, r.threw, decision)
         /\ resultQueue' = IF decision = "ack" THEN Tail(resultQueue) ELSE resultQueue
  /\ UNCHANGED <<unitVars, variant, now, ws, clientState, clients, userConnections, timer,
                 tasks, taskQueue, mq, lastFrameAt>>

\* MessageQueue.connect(): the attempt made by the constructor runs
\* _setupMessageQueueConsumer when it settles (consumeResults registers the
\* consumer only if the client is connected); the attempts made by the
\* retry timers only reconnect.
MqConnect(ok) ==
  /\ variant = "queued"
  /\ ~mq.connected
  /\ mq' = [connected |-> ok,
            consuming |-> IF mq.started THEN mq.consuming ELSE ok,
            started |-> TRUE]
  /\ sendLog' = <<>>
  /\ lastEvent' = ConnEvent("mqConnect", 0, NoFrame)
  /\ UNCHANGED <<unitVars, variant, now, ws, clientState, clients, userConnections, timer,
                 tasks, taskQueue, resultQueue, lastFrameAt>>

\* The broker connection closes: connected = false, the channel and its
\* consumer are gone, a reconnect is scheduled.
MqClose ==
  /\ variant = "queued"
  /\ mq.connected
  /\ mq' = [mq EXCEPT !.connected = FALSE, !.consuming = FALSE]
  /\ sendLog' = <<>>
  /\ lastEvent' = ConnEvent("mqClose", 0, NoFrame)
  /\ UNCHANGED <<unitVars, variant, now, ws, clientState, clients, userConnections, timer,
                 tasks, taskQueue, resultQueue, lastFrameAt>>

(***************************************************************************)
(* Close, heartbeat check, time                                            *)
(***************************************************************************)
\* The peer closes or the socket breaks: the socket leaves OPEN; its
\* 'close' event is delivered later.
PeerClose(c) ==
  /\ ws[c] = "OPEN"
  /\ ws' = [ws EXCEPT ![c] = "CLOSING"]
  /\ sendLog' = <<>>
  /\ lastEvent' = ConnEvent("peerClose", c, NoFrame)
  /\ UNCHANGED <<unitVars, variant, now, clientState, clients, userConnections, timer,
                 tasks, taskQueue, resultQueue, mq, lastFrameAt>>

\* ws.on('close'): unregister from the set of clientState.userId, forget
\* the client (queued), clear the heartbeat timer.
CloseEvent(c) ==
  /\ ws[c] = "CLOSING"
  /\ ws' = [ws EXCEPT ![c] = "CLOSED"]
  /\ userConnections' = unregister(userConnections, clientState[c].userId, c)
  /\ clients' = clients \ {c}
  /\ timer' = [timer EXCEPT ![c].active = FALSE]
  /\ sendLog' = <<>>
  /\ lastEvent' = ConnEvent("close", c, NoFrame)
  /\ UNCHANGED <<unitVars, variant, now, clientState, tasks, taskQueue, resultQueue, mq,
                 lastFrameAt>>

\* The check of the heartbeat timer: terminate when the connection has
\* been idle for more than the timeout.
isTimedOut(v, t, lastHeartbeat) == t - lastHeartbeat > Timeout(v)

\* ws.terminate(): the socket is destroyed; 'close' follows.
terminate(readyState) == IF readyState = "CLOSED" THEN "CLOSED" ELSE "CLOSING"

\* One firing of the setInterval callback of connection c.  The simple
\* server sends a ping when it does not terminate and the socket is open.
HeartbeatCheck(c) ==
  /\ timer[c].active
  /\ timer[c].next <= now
  /\ IF variant = "queued" /\ c \notin clients
       THEN /\ timer' = [timer EXCEPT ![c].active = FALSE]
            /\ UNCHANGED ws
            /\ sendLog' = <<>>
            /\ lastEvent' = ConnEvent("heartbeatCheck", c, NoFrame)
       ELSE IF isTimedOut(variant, now, clientState[c].lastHeartbeat)
         THEN /\ ws' = [ws EXCEPT ![c] = terminate(ws[c])]
              /\ timer' = [timer EXCEPT ![c].active = FALSE, ![c].timedOut = TRUE]
              /\ sendLog' = <<>>
              /\ lastEvent' = ConnEvent("heartbeatTimeout", c, NoFrame)
         ELSE /\ UNCHANGED ws
              /\ timer' = [timer EXCEPT ![c].next = timer[c].next + CheckPeriod(variant)]
              /\ sendLog' = IF variant = "simple" /\ ws[c] = "OPEN"
                              THEN <<[to |-> c, frame |-> Frame("ping", Null, Null, 0, 0),
                                      outcome |-> "sent"]>>
                              ELSE <<>>
              /\ lastEvent' = ConnEvent("heartbeatCheck", c, NoFrame)
  /\ UNCHANGED <<unitVars, variant, now, clientState, clients, userConnections, tasks,
                 taskQueue, resultQueue, mq, lastFrameAt>>

\* Time passes; a timer that is due fires before the clock moves on.
Tick ==
  /\ now < EndTime(variant)
  /\ \A c \in Conns : timer[c].active => now < timer[c].next
  /\ now' = now + TimeStep(variant)
  /\ sendLog' = <<>>
  /\ lastEvent' = ConnEvent("tick", 0, NoFrame)
  /\ UNCHANGED <<unitVars, variant, ws, clientState, clients, userConnections, timer,
                 tasks, taskQueue, resultQueue, mq, lastFrameAt>>

(***************************************************************************)
(* Specification                                                           *)
(***************************************************************************)
\* Everything the servers do between two movements of the clock: accepts,
\* frames, closes, tasks, results and the broker connection.  No heartbeat
\* timer is due while the clock stands.
Next ==
  \/ \E c \in Conns, fault \in BOOLEAN : Accept(c, fault)
  \/ \E c \in Conns, fault \in BOOLEAN : MessageBadJson(c, fault)
  \/ \E c \in Conns, m \in InFrames, fault \in BOOLEAN : MessageAuth(c, m, fault)
  \/ \E c \in Conns, fault \in BOOLEAN : MessagePing(c, fault)
  \/ \E c \in Conns, type \in {"pong", "subscribe"}, fault \in BOOLEAN :
       MessageOther(c, type, fault)
  \/ \E c \in Conns, m \in InFrames, fault \in BOOLEAN : MessageRequestUnauth(c, m, fault)
  \/ \E c \in Conns, m \in InFrames, fault \in BOOLEAN : MessageRequestSimple(c, m, fault)
  \/ \E c \in Conns, m \in InFrames, fault \in BOOLEAN, published \in BOOLEAN :
       MessageRequestQueued(c, m, fault, published)
  \/ \E t \in TaskIds, faults \in SUBSET Conns : ReadFileError(t, faults)
  \/ \E t \in TaskIds, faults \in SUBSET Conns : ReadFileEmpty(t, faults)
  \/ \E t \in TaskIds, N \in 1..MaxItems, size \in 1..MaxItems, faults \in SUBSET Conns :
       ReadFileItems(t, N, size, faults)
  \/ \E t \in TaskIds, size \in 1..MaxItems, faults \in SUBSET Conns :
       SendNextBatch(t, size, faults)
  \/ \E ok \in BOOLEAN : WorkerProcessTask(ok)
  \/ \E faults \in SUBSET Conns : ConsumeResult(faults)
  \/ \E ok \in BOOLEAN : MqConnect(ok)
  \/ MqClose
  \/ \E c \in Conns : PeerClose(c)
  \/ \E c \in Conns : CloseEvent(c)

Spec == Init /\ [][Next]_vars

\* One connection over time: its frames, its heartbeat timer and the clock.
NextTimed ==
  \/ \E c \in TimedConns, fault \in BOOLEAN : Accept(c, fault)
  \/ \E c \in TimedConns, fault \in BOOLEAN : MessageBadJson(c, fault)
  \/ \E c \in TimedConns, m \in TimedInFrames, fault \in BOOLEAN : MessageAuth(c, m, fault)
  \/ \E c \in TimedConns, fault \in BOOLEAN : MessagePing(c, fault)
  \/ \E c \in TimedConns, type \in {"pong", "subscribe"}, fault \in BOOLEAN :
       MessageOther(c, type, fault)
  \/ \E c \in TimedConns, m \in TimedInFrames, fault \in BOOLEAN :
       MessageRequestUnauth(c, m, fault)
  \/ \E c \in TimedConns, m \in TimedInFrames, fault \in BOOLEAN :
       MessageRequestSimple(c, m, fault)
  \/ \E c \in TimedConns, m \in TimedInFrames, fault \in BOOLEAN, published \in BOOLEAN :
       MessageRequestQueued(c, m, fault, published)
  \/ \E c \in TimedConns : PeerClose(c)
  \/ \E c \in TimedConns : CloseEvent(c)
  \/ \E c \in TimedConns : HeartbeatCheck(c)
  \/ Tick

SpecTimed == Init /\ [][NextTimed]_vars

(***************************************************************************)
(* The batch sender: TaskProcessor._sendDataInBatches                      *)
(***************************************************************************)
\* Largest value of Math.floor(Math.random() * 10) + 1.
MaxBatchSize == 10

Min(a, b) == IF a < b THEN a ELSE b

\* The parsed data file: an array of N distinct items.
Dataset(N) == [i \in 1..N |-> i]

\* Array.prototype.slice(start, end): the elements at the 0-based indexes
\* start .. end-1 that exist.
slice(items, start, end) == SubSeq(items, start + 1, Min(end, Len(items)))

\* A batch size that is not capped by the number of remaining items.
batchSizeUncapped(totalItems, processedItems, rnd) == rnd

\* Math.min(totalItems - processedItems, random 1..10).
batchSize(totalItems, processedItems, rnd) == Min(totalItems - processedItems, rnd)

\* The result object of one batch, built after the counters were advanced.
BatchResult(task, batchItems) ==
  [status |-> IF task.processedItems >= task.totalItems THEN "completed" ELSE "processing",
   batchNumber |-> task.batchNumber,
   totalItems |-> task.totalItems,
   processedItems |-> task.processedItems,
   isFinal |-> task.processedItems >= task.totalItems,
   results |-> batchItems]

\* sendNextBatch: take the next slice, advance processedItems and
\* batchNumber, hand the result to onComplete.
sendNextBatch(run, rnd) ==
  LET size == batchSize(run.task.totalItems, run.task.processedItems, rnd)
      batchItems == slice(run.items, run.task.processedItems,
                          run.task.processedItems + size)
      task == batchStep(run.task, size)
  IN  [run EXCEPT !.task = task,
                  !.results = Append(run.results, BatchResult(task, batchItems))]

\* _sendDataInBatches(task, data, onComplete) for a file of N items: with
\* no item one 'completed' result without batch number and isFinal, else
\* the first batch at once.
BatchStart(N, rnd) ==
  /\ batchRun = NoRun
  /\ LET task == [NoTask EXCEPT !.status = "processing", !.stage = "reading",
                                !.totalItems = N]
         run == [items |-> Dataset(N), task |-> task, results |-> <<>>]
     IN  batchRun' =
           IF N = 0
             THEN [run EXCEPT !.task.stage = "done",
                              !.results = <<[BatchResult(task, <<>>) EXCEPT
                                               !.isFinal = FALSE]>>]
             ELSE sendNextBatch(run, rnd)
  /\ UNCHANGED <<serverVars, intake, session, backoff, wsClient, clientObs, consumer>>

\* The setTimeout callback: the next batch.
BatchSendNext(rnd) ==
  /\ batchRun.task.stage = "batching"
  /\ batchRun' = sendNextBatch(batchRun, rnd)
  /\ UNCHANGED <<serverVars, intake, session, backoff, wsClient, clientObs, consumer>>

NextBatches ==
  \/ \E N \in 0..MaxDataset, rnd \in 1..MaxBatchSize : BatchStart(N, rnd)
  \/ \E rnd \in 1..MaxBatchSize : BatchSendNext(rnd)

SpecBatches == Init /\ [][NextBatches]_vars

(***************************************************************************)
(* The clients: WSClient of the two frontends, TestWSClient of the tests   *)
(***************************************************************************)
\* The request id the application uses, and an id that no request of this
\* client has (a frame for a request of an earlier session, or of nobody).
ClientReqIds == {"req-1"}
UnknownReqId == "req-0"

\* The client classes that talk to a server: the WSClient of its frontend
\* (simple: frontend/app.js bundle, queued: websocket-client.js) and, for
\* the queued server, the TestWSClient of its tests.
ClientKinds(v) == IF v = "queued" THEN {"WSClient", "TestWSClient"} ELSE {"WSClient"}

\* The callbacks argument of WSClient.requestData: which callbacks it has,
\* and its once property (absent, true or false).
CallbackArgs ==
  [onAccepted : BOOLEAN, onData : BOOLEAN, onError : BOOLEAN,
   once : {"undefined", "true", "false"}]

\* The entry requestData stores: once is `callbacks.once !== false`.
CallbackEntry(callbacks) ==
  [onAccepted |-> callbacks.onAccepted, onData |-> callbacks.onData,
   onError |-> callbacks.onError, once |-> callbacks.once # "false"]

\* The frames a server may write to a client, and text that is not JSON.
ServerFrames ==
  {ServerFrame(FALSE, Null, Null, Null, FALSE, Null)}
    \cup {ServerFrame(TRUE, ty, Null, Null, FALSE, Null) :
            ty \in {"welcome", "auth_failure", "ping", "pong", "notice"}}
    \cup {ServerFrame(TRUE, "auth_success", Null, Null, FALSE, "1")}
    \cup {ServerFrame(TRUE, ty, r, Null, FALSE, Null) :
            ty \in {"request_accepted", "error"},
            r \in ClientReqIds \cup {UnknownReqId, Null}}
    \cup {ServerFrame(TRUE, "data", Null, r, f, Null) :
            r \in ClientReqIds \cup {UnknownReqId, Null}, f \in BOOLEAN}

\* `id && map.has(id)`.
has(keys, requestId) == requestId # Null /\ requestId \in keys

\* The request id a client looks a frame up by: WSClient reads
\* payload.requestId of a data frame and requestId of the others,
\* TestWSClient reads message.requestId of every frame.
requestIdOf(kind, f) ==
  IF kind = "WSClient" /\ f.type = "data" THEN f.payloadRequestId ELSE f.requestId

\* The request ids a client has an entry for.
pending(cl) ==
  IF cl.kind = "WSClient" THEN DOMAIN cl.requestCallbacks ELSE cl.messageHandlers

\* What a handler did: the client after it, the callbacks it invoked and
\* the frames it sent.
Handled(cl, called, sent) == [client |-> cl, called |-> called, sent |-> sent]

\* send(data): nothing is sent unless the socket is open (TestWSClient
\* tests its connected flag first); an exception of socket.send is caught.
clientSend(cl, type, fault) ==
  IF (cl.kind = "TestWSClient" => cl.connected) /\ cl.socket = "OPEN" /\ ~fault
    THEN <<type>> ELSE <<>>

\* connect(): WSClient returns when its socket is open or connecting or
\* when isConnecting is set; TestWSClient always creates a socket.
createsSocket(cl) ==
  cl.kind = "TestWSClient" \/ (cl.socket \notin {"OPEN", "CONNECTING"} /\ ~cl.isConnecting)

connect(cl) ==
  IF ~createsSocket(cl) THEN cl
  ELSE [cl EXCEPT !.isConnecting = (cl.kind = "WSClient"),
                  !.socket = "CONNECTING",
                  !.sockets = @ + 1,
                  !.orphans = IF cl.socket \in {"OPEN", "CONNECTING"} THEN @ + 1 ELSE @]

\* The constructor; it connects unless autoConnect is false.
ClientNew(kind, token, autoConnect) ==
  /\ wsClient.kind = "none"
  /\ kind \in ClientKinds(variant)
  /\ LET cl == [NoClient EXCEPT !.kind = kind, !.authToken = token]
     IN  wsClient' = IF autoConnect THEN connect(cl) ELSE cl
  /\ clientObs' = ClientEvent("new", NoServerFrame, FALSE, <<>>, <<>>)
  /\ UNCHANGED <<serverVars, intake, session, backoff, batchRun, consumer>>

\* The application calls connect() (on a TestWSClient only when it has no
\* live socket).
ClientConnect ==
  /\ wsClient.kind # "none"
  /\ wsClient.kind = "TestWSClient" => wsClient.socket \notin {"OPEN", "CONNECTING"}
  /\ createsSocket(wsClient) => wsClient.sockets < MaxSockets
  /\ wsClient' = connect(wsClient)
  /\ clientObs' = ClientEvent("connect", NoServerFrame, FALSE, <<>>, <<>>)
  /\ UNCHANGED <<serverVars, intake, session, backoff, batchRun, consumer>>

\* _handleOpen / ws.on('open'): the attempt counter is reset and the
\* heartbeat timer starts.
handleOpen(cl) ==
  [cl EXCEPT !.socket = "OPEN", !.isConnecting = FALSE,
             !.reconnectAttempts = 0, !.heartbeatTimer = TRUE,
             !.connected = (cl.kind = "TestWSClient")]

\* The open event of the current socket: the stored token is sent.
ClientOpen(fault) ==
  /\ wsClient.socket = "CONNECTING"
  /\ LET cl == handleOpen(wsClient)
     IN  /\ wsClient' = cl
         /\ clientObs' = ClientEvent("open", NoServerFrame, FALSE, <<"onConnect">>,
                           IF cl.authToken THEN clientSend(cl, "auth", fault) ELSE <<>>)
  /\ UNCHANGED <<serverVars, intake, session, backoff, batchRun, consumer>>

\* A close handler that leaves the authenticated flag as it is.
handleCloseKeepingAuthenticated(cl) ==
  [cl EXCEPT !.isConnecting = FALSE, !.connected = FALSE,
             !.heartbeatTimer = FALSE, !.reconnectTimers = @ + 1]

\* _handleClose / ws.on('close'): flags cleared, heartbeat stopped, a
\* reconnect scheduled.  The pending requests are not touched.
handleClose(cl) ==
  [cl EXCEPT !.authenticated = FALSE, !.isConnecting = FALSE, !.connected = FALSE,
             !.heartbeatTimer = FALSE, !.reconnectTimers = @ + 1]

\* The socket of the client closes without the client having asked for it
\* (the server or the network closed it, or the connection attempt failed).
ClientSocketClosed ==
  /\ wsClient.socket \in {"CONNECTING", "OPEN"}
  /\ wsClient' = [handleClose(wsClient) EXCEPT !.socket = "CLOSED"]
  /\ clientObs' = ClientEvent("close", NoServerFrame, FALSE, <<"onDisconnect">>, <<>>)
  /\ UNCHANGED <<serverVars, intake, session, backoff, batchRun, consumer>>

\* The close event of a socket the client no longer refers to (closed by
\* disconnect()/close(), or replaced by connect()): the same handler runs.
ClientOrphanClosed ==
  /\ wsClient.orphans > 0
  /\ wsClient' = [handleClose(wsClient) EXCEPT !.orphans = @ - 1]
  /\ clientObs' = ClientEvent("orphanClose", NoServerFrame, FALSE, <<"onDisconnect">>, <<>>)
  /\ UNCHANGED <<serverVars, intake, session, backoff, batchRun, consumer>>

\* The timeout set by _reconnect fires: count the attempt, connect().
ClientReconnectTimer ==
  /\ wsClient.reconnectTimers > 0
  /\ LET cl == [wsClient EXCEPT !.reconnectTimers = @ - 1,
                                !.reconnectAttempts =
                                  IF wsClient.kind = "WSClient" THEN @ + 1 ELSE @]
     IN  /\ createsSocket(cl) => cl.sockets < MaxSockets
         /\ wsClient' = connect(cl)
  /\ clientObs' = ClientEvent("reconnect", NoServerFrame, FALSE,
                    IF wsClient.kind = "WSClient" THEN <<"onReconnect">> ELSE <<>>, <<>>)
  /\ UNCHANGED <<serverVars, intake, session, backoff, batchRun, consumer>>

\* The heartbeat interval fires: a ping goes out if the socket is open.
ClientHeartbeat(fault) ==
  /\ wsClient.heartbeatTimer
  /\ clientObs' = ClientEvent("heartbeat", NoServerFrame, FALSE, <<>>,
                              clientSend(wsClient, "ping", fault))
  /\ UNCHANGED <<serverVars, intake, session, backoff, batchRun, consumer, wsClient>>

\* disconnect() of WSClient clears the pending requests; close() of
\* TestWSClient does not (the model keeps its handlers in another field).
\* The socket is closed and forgotten; its close event comes later.
disconnect(cl) ==
  [cl EXCEPT !.heartbeatTimer = FALSE,
             !.requestCallbacks = EmptyMap,
             !.orphans = IF cl.socket \in {"OPEN", "CONNECTING"} THEN @ + 1 ELSE @,
             !.socket = "null",
             !.connected = FALSE,
             !.authenticated = FALSE]

\* The application calls disconnect() / close().
ClientDisconnect ==
  /\ wsClient.kind # "none"
  /\ wsClient' = disconnect(wsClient)
  /\ clientObs' = ClientEvent("disconnect", NoServerFrame, FALSE, <<>>, <<>>)
  /\ UNCHANGED <<serverVars, intake, session, backoff, batchRun, consumer>>

\* WSClient.requestData(requestId, params, callbacks): refused (onError
\* called, nothing stored or sent) when not authenticated, else the entry
\* is stored and the request sent.
wsRequestData(cl, requestId, callbacks, fault) ==
  IF ~cl.authenticated
    THEN Handled(cl, IF callbacks.onError THEN <<"onError">> ELSE <<>>, <<>>)
    ELSE Handled([cl EXCEPT !.requestCallbacks =
                              MapSet(@, requestId, CallbackEntry(callbacks))],
                 <<>>, clientSend(cl, "request_data", fault))

\* TestWSClient.requestData(params): rejected when not connected or not
\* authenticated, else a one-shot handler and a 30 s timeout are registered
\* under a new id and the request is sent.
testRequestData(cl, requestId, fault) ==
  IF ~cl.connected \/ ~cl.authenticated
    THEN Handled(cl, <<"reject">>, <<>>)
    ELSE Handled([cl EXCEPT !.messageHandlers = @ \cup {requestId},
                            !.requestTimeouts = @ \cup {requestId},
                            !.issued = @ \cup {requestId}],
                 <<>>, clientSend(cl, "request_data", fault))

ClientRequestData(requestId, callbacks, fault) ==
  /\ wsClient.kind # "none"
  /\ wsClient.kind = "TestWSClient" => requestId \notin wsClient.issued
  /\ LET r == IF wsClient.kind = "WSClient"
                THEN wsRequestData(wsClient, requestId, callbacks, fault)
                ELSE testRequestData(wsClient, requestId, fault)
     IN  /\ wsClient' = r.client
         /\ clientObs' = ClientEvent("requestData",
                           ServerFrame(TRUE, "request_data", requestId, Null, FALSE, Null),
                           FALSE, r.called, r.sent)
  /\ UNCHANGED <<serverVars, intake, session, backoff, batchRun, consumer>>

\* The 30 s timeout of a TestWSClient request: the handler, if still
\* registered, is removed and the promise rejected.
ClientRequestTimeout(requestId) ==
  /\ requestId \in wsClient.requestTimeouts
  /\ wsClient' = [wsClient EXCEPT !.requestTimeouts = @ \ {requestId},
                                  !.messageHandlers = @ \ {requestId}]
  /\ clientObs' = ClientEvent("requestTimeout",
                    ServerFrame(TRUE, "request_data", requestId, Null, FALSE, Null), FALSE,
                    IF requestId \in wsClient.messageHandlers THEN <<"reject">> ELSE <<>>,
                    <<>>)
  /\ UNCHANGED <<serverVars, intake, session, backoff, batchRun, consumer>>

\* case 'request_accepted': onAccepted of the entry, if any.
wsHandleAccepted(cl, f, throws) ==
  IF has(DOMAIN cl.requestCallbacks, f.requestId) /\ cl.requestCallbacks[f.requestId].onAccepted
    THEN Handled(cl, <<"onAccepted">>, <<>>)
    ELSE Handled(cl, <<>>, <<>>)

\* A data case that reports a frame it cannot match back to the server.
wsHandleDataReportingUnknown(cl, f, throws) ==
  IF has(DOMAIN cl.requestCallbacks, f.payloadRequestId)
    THEN Handled(cl, <<>>, <<>>)
    ELSE Handled(cl, <<>>, <<"error">>)

\* case 'data': onData of the entry, if it has one; the entry is deleted
\* after onData returned, if it is one-shot.
wsHandleData(cl, f, throws) ==
  IF has(DOMAIN cl.requestCallbacks, f.payloadRequestId)
       /\ cl.requestCallbacks[f.payloadRequestId].onData
    THEN Handled(IF cl.requestCallbacks[f.payloadRequestId].once /\ ~throws
                   THEN [cl EXCEPT !.requestCallbacks = MapDelete(@, f.payloadRequestId)]
                   ELSE cl,
                 <<"onData">>, <<>>)
    ELSE Handled(cl, <<>>, <<>>)

\* case 'error': onError of the entry, if it has one; the entry is deleted
\* after onError returned, if it is one-shot.
wsHandleError(cl, f, throws) ==
  IF has(DOMAIN cl.requestCallbacks, f.requestId) /\ cl.requestCallbacks[f.requestId].onError
    THEN Handled(IF cl.requestCallbacks[f.requestId].once /\ ~throws
                   THEN [cl EXCEPT !.requestCallbacks = MapDelete(@, f.requestId)]
                   ELSE cl,
                 <<"onError">>, <<>>)
    ELSE Handled(cl, <<>>, <<>>)

\* WSClient._handleMessage: everything runs inside one try; an exception
\* (of JSON.parse or of a callback) ends the handler.  The simple frontend
\* answers a ping with a pong; the queued frontend has a case for pong.
\* The global onMessage handler runs last.
wsHandleMessage(v, cl, f, throws, fault) ==
  IF ~f.json THEN Handled(cl, <<>>, <<>>)
  ELSE LET r == CASE f.type = "auth_success" ->
                       Handled([cl EXCEPT !.authenticated = TRUE, !.userId = f.userId],
                               <<"onAuthSuccess">>, <<>>)
                  [] f.type = "auth_failure" ->
                       Handled([cl EXCEPT !.authenticated = FALSE], <<"onAuthFailure">>, <<>>)
                  [] f.type = "ping" /\ v = "simple" ->
                       Handled(cl, <<>>, clientSend(cl, "pong", fault))
                  [] f.type = "request_accepted" -> wsHandleAccepted(cl, f, throws)
                  [] f.type = "data" -> wsHandleData(cl, f, throws)
                  [] f.type = "error" -> wsHandleError(cl, f, throws)
                  [] OTHER -> Handled(cl, <<>>, <<>>)
       IN  IF throws /\ r.called # <<>>
             THEN r
             ELSE [r EXCEPT !.called = Append(@, "onMessage")]

\* A message handler whose request handlers are not one-shot: the handler
\* stays registered after it settled its promise.
testHandleMessageKeepingHandler(cl, f) ==
  IF ~f.json THEN Handled(cl, <<>>, <<>>)
  ELSE LET r == CASE f.type = "auth_success" ->
                       Handled([cl EXCEPT !.authenticated = TRUE, !.userId = f.userId],
                               <<>>, <<>>)
                  [] f.type = "auth_failure" ->
                       Handled([cl EXCEPT !.authenticated = FALSE], <<>>, <<>>)
                  [] f.type \in {"welcome", "pong"} -> Handled(cl, <<>>, <<>>)
                  [] OTHER ->
                       IF has(cl.messageHandlers, f.requestId)
                         THEN Handled(cl,
                                      <<IF f.type = "error" THEN "reject" ELSE "resolve">>,
                                      <<>>)
                         ELSE Handled(cl, <<>>, <<>>)
       IN  [r EXCEPT !.called = Append(@, "onMessage")]

\* The message handler of TestWSClient: a frame of any other type than
\* welcome, auth_success, auth_failure and pong goes to the handler
\* registered under message.requestId, which settles the promise and, being
\* one-shot, is removed.
testHandleMessage(cl, f) ==
  IF ~f.json THEN Handled(cl, <<>>, <<>>)
  ELSE LET r == CASE f.type = "auth_success" ->
                       Handled([cl EXCEPT !.authenticated = TRUE, !.userId = f.userId],
                               <<>>, <<>>)
                  [] f.type = "auth_failure" ->
                       Handled([cl EXCEPT !.authenticated = FALSE], <<>>, <<>>)
                  [] f.type \in {"welcome", "pong"} -> Handled(cl, <<>>, <<>>)
                  [] OTHER ->
                       IF has(cl.messageHandlers, f.requestId)
                         THEN Handled([cl EXCEPT !.messageHandlers = @ \ {f.requestId},
                                                 !.requestTimeouts = @ \ {f.requestId}],
                                      <<IF f.type = "error" THEN "reject" ELSE "resolve">>,
                                      <<>>)
                         ELSE Handled(cl, <<>>, <<>>)
       IN  [r EXCEPT !.called = Append(@, "onMessage")]

\* Whether the callback a frame reaches throws, and whether the send it
\* causes fails: only frames of a type that can reach a callback, or that
\* is answered, have the choice.
CallbackOutcomes(f) ==
  IF f.type \in {"auth_success", "auth_failure", "request_accepted", "data", "error"}
    THEN BOOLEAN ELSE {FALSE}
SendOutcomes(f) == IF f.type = "ping" THEN BOOLEAN ELSE {FALSE}

\* A frame arrives on the open socket.
ClientMessage(f, throws, fault) ==
  /\ wsClient.socket = "OPEN"
  /\ LET r == IF wsClient.kind = "WSClient"
                THEN wsHandleMessage(variant, wsClient, f, throws, fault)
                ELSE testHandleMessage(wsClient, f)
     IN  /\ wsClient' = r.client
         /\ clientObs' = ClientEvent("message", f,
                           has(pending(wsClient), requestIdOf(wsClient.kind, f)),
                           r.called, r.sent)
  /\ UNCHANGED <<serverVars, intake, session, backoff, batchRun, consumer>>

NextClient ==
  \/ \E kind \in {"WSClient", "TestWSClient"}, token \in BOOLEAN, autoConnect \in BOOLEAN :
       ClientNew(kind, token, autoConnect)
  \/ ClientConnect
  \/ \E fault \in BOOLEAN : ClientOpen(fault)
  \/ ClientSocketClosed
  \/ ClientOrphanClosed
  \/ ClientReconnectTimer
  \/ \E fault \in BOOLEAN : ClientHeartbeat(fault)
  \/ ClientDisconnect
  \/ \E requestId \in ClientReqIds, callbacks \in CallbackArgs, fault \in BOOLEAN :
       ClientRequestData(requestId, callbacks, fault)
  \/ \E requestId \in ClientReqIds : ClientRequestTimeout(requestId)
  \/ \E f \in ServerFrames :
       \E throws \in CallbackOutcomes(f), fault \in SendOutcomes(f) :
         ClientMessage(f, throws, fault)

SpecClient == Init /\ [][NextClient]_vars

(***************************************************************************)
(* The consumers of the queue client: consumeTasks and consumeResults      *)
(***************************************************************************)
\* What a message can hold: a JSON object (what sendTask and sendResult
\* publish), the JSON text null (the callbacks destructure their argument
\* and throw on it), or text that is not JSON.
Contents == {"object", "null", "garbage"}

\* The channel calls of a callback that acknowledges on receipt and
\* negatively acknowledges on failure.
settleAckOnReceipt(parsed, threw) ==
  IF parsed /\ ~threw THEN <<"ack">> ELSE <<"ack", "nack">>

\* The channel calls of a callback that acknowledges whatever happened.
settleAckAlways(parsed, threw) == <<"ack">>

\* try { JSON.parse; callback; channel.ack } catch { channel.nack }: the
\* channel calls made for one delivery.
settle(parsed, threw) == <<ackDecision(~parsed \/ threw, 0)>>

\* The broker's queue after the calls for the delivery of its head: the
\* first call counts; ack removes the message, nack requeues it.
settledQueue(queue, calls) == IF calls[1] = "ack" THEN Tail(queue) ELSE queue

\* A message is published to a queue (by sendTask, sendResult or another
\* publisher of the broker).
Publish(queue, content) ==
  /\ \/ /\ queue = "task_queue"
        /\ Len(consumer.taskQueue) < MaxQueued
        /\ consumer' = [consumer EXCEPT !.taskQueue = Append(@, content)]
     \/ /\ queue = "task_results"
        /\ Len(consumer.resultQueue) < MaxQueued
        /\ consumer' = [consumer EXCEPT !.resultQueue = Append(@, content)]
  /\ UNCHANGED <<serverVars, intake, session, backoff, batchRun, wsClient, clientObs>>

\* consumeTasks, up to the await: with prefetch(1) the broker delivers the
\* next task only when the previous delivery has been settled.  Content
\* that is not JSON is nacked at once; otherwise the callback is awaited.
ConsumeTasksDeliver ==
  /\ consumer.taskQueue # <<>>
  /\ consumer.handling.tag = 0
  /\ consumer.tag < MaxDeliveries
  /\ LET tag == consumer.tag + 1
         content == Head(consumer.taskQueue)
         calls == settle(FALSE, FALSE)
     IN  consumer' =
           IF content = "garbage"
             THEN [consumer EXCEPT !.tag = tag,
                                   !.taskQueue = settledQueue(@, calls),
                                   !.last = Settled(tag, "task_queue", "parse", calls)]
             ELSE [consumer EXCEPT !.tag = tag,
                                   !.handling = [tag |-> tag, content |-> content]]
  /\ UNCHANGED <<serverVars, intake, session, backoff, batchRun, wsClient, clientObs>>

\* consumeTasks, after the await: processTask returned (its last step,
\* sendResult, published the result) or threw (null task, or sendResult
\* found the client disconnected).
ConsumeTasksSettle(published) ==
  /\ consumer.handling.tag # 0
  /\ LET threw == consumer.handling.content = "null" \/ ~published
         calls == settle(TRUE, threw)
     IN  /\ ~threw => Len(consumer.resultQueue) < MaxQueued
         /\ consumer' =
              [consumer EXCEPT
                 !.handling = [tag |-> 0, content |-> "none"],
                 !.taskQueue = settledQueue(@, calls),
                 !.resultQueue = IF threw THEN @ ELSE Append(@, "object"),
                 !.last = Settled(consumer.handling.tag, "task_queue",
                                  IF threw THEN "threw" ELSE "returned", calls)]
  /\ UNCHANGED <<serverVars, intake, session, backoff, batchRun, wsClient, clientObs>>

\* consumeResults: parse, callback and acknowledgement in one turn.  The
\* server's callback throws only on a null message.
ConsumeResultsDeliver ==
  /\ consumer.resultQueue # <<>>
  /\ consumer.tag < MaxDeliveries
  /\ LET tag == consumer.tag + 1
         content == Head(consumer.resultQueue)
         parsed == content # "garbage"
         threw == content = "null"
         calls == settle(parsed, threw)
     IN  consumer' =
           [consumer EXCEPT
              !.tag = tag,
              !.resultQueue = settledQueue(@, calls),
              !.last = Settled(tag, "task_results",
                               IF ~parsed THEN "parse"
                               ELSE IF threw THEN "threw" ELSE "returned", calls)]
  /\ UNCHANGED <<serverVars, intake, session, backoff, batchRun, wsClient, clientObs>>

NextConsumer ==
  \/ \E queue \in {"task_queue", "task_results"}, content \in Contents :
       Publish(queue, content)
  \/ ConsumeTasksDeliver
  \/ \E published \in BOOLEAN : ConsumeTasksSettle(published)
  \/ ConsumeResultsDeliver

SpecConsumer == Init /\ [][NextConsumer]_vars

(***************************************************************************)
(* The reconnect backoff of WSClient: _handleClose, _reconnect             *)
(***************************************************************************)
\* Default of options.reconnectInterval and the largest delay, in ms.
DefaultReconnectInterval == 3000
MaxReconnectDelay == 30000

\* Values the application passes as options.reconnectInterval, in ms; 0
\* stands for an option that is absent.
ReconnectIntervals ==
  {0, 500, 1000, 1500, 2000, 3000, 4000, 5000, 10000, 20000, 30000, 36000}

\* `options.reconnectInterval || 3000`.
reconnectIntervalOf(option) == IF option = 0 THEN DefaultReconnectInterval ELSE option

RECURSIVE pow(_, _)
pow(b, n) == IF n = 0 THEN 1 ELSE b * pow(b, n - 1)

\* Delays are not whole milliseconds (3000 * 1.5^3 = 10125, * 1.5^4 =
\* 15187.5): a delay is held as a multiple of 1/2^MaxAttempts ms, which is
\* exact for every attempt count up to MaxAttempts.
Ms(x) == x * pow(2, MaxAttempts)

\* A delay that does not grow with the attempts.
reconnectDelayFixed(reconnectInterval, reconnectAttempts) ==
  Ms(Min(MaxReconnectDelay, reconnectInterval))

\* Math.min(30000, reconnectInterval * Math.pow(1.5, reconnectAttempts)),
\* with 1.5^n = 3^n / 2^n.
reconnectDelay(reconnectInterval, reconnectAttempts) ==
  Min(MaxReconnectDelay * pow(2, reconnectAttempts),
      reconnectInterval * pow(3, reconnectAttempts))
    * pow(2, MaxAttempts - reconnectAttempts)

\* new WSClient(url, {reconnectInterval: option}).
BackoffNew(option) ==
  /\ backoff = NoBackoff
  /\ backoff' = [NoBackoff EXCEPT !.reconnectInterval = reconnectIntervalOf(option)]
  /\ UNCHANGED <<serverVars, intake, session, batchRun, wsClient, clientObs, consumer>>

\* The socket closes before it opened (the server cannot be reached):
\* _handleClose calls _reconnect, which schedules connect() after the delay.
BackoffClose ==
  /\ backoff.reconnectInterval # 0
  /\ ~backoff.timer
  /\ backoff' = [backoff EXCEPT
                   !.timer = TRUE,
                   !.delays = Append(@, reconnectDelay(backoff.reconnectInterval,
                                                       backoff.reconnectAttempts))]
  /\ UNCHANGED <<serverVars, intake, session, batchRun, wsClient, clientObs, consumer>>

\* The timeout of _reconnect fires: the attempt is counted and connect()
\* creates the next socket.
BackoffTimer ==
  /\ backoff.timer
  /\ backoff.reconnectAttempts < MaxAttempts
  /\ backoff' = [backoff EXCEPT !.timer = FALSE, !.reconnectAttempts = @ + 1]
  /\ UNCHANGED <<serverVars, intake, session, batchRun, wsClient, clientObs, consumer>>

NextBackoff ==
  \/ \E option \in ReconnectIntervals : BackoffNew(option)
  \/ BackoffClose
  \/ BackoffTimer

SpecBackoff == Init /\ [][NextBackoff]_vars

(***************************************************************************)
(* The data requests of one authenticated connection                       *)
(***************************************************************************)
\* The requests are numbered in the order of their arrival on the socket.
\* A reply the server writes for a request.
Reply(type, request) == [type |-> type, request |-> request]

\* A reaction job of the promise chain sendTask(task).then(...).catch(...):
\* hop 1 is the job of .then, hop 2 the job of .catch (it is queued when
\* the promise that .then returned is rejected).
Job(request, fulfilled, hop) == [request |-> request, fulfilled |-> fulfilled, hop |-> hop]

\* A job queue that runs the job queued last first.
enqueueJobFirst(jobs, job) == <<job>> \o jobs

\* The promise jobs run in the order they were queued.
enqueueJob(jobs, job) == Append(jobs, job)

\* simple: handleDataRequest of an authenticated connection: the task is
\* created and request_accepted written before the handler returns.
simpleHandleDataRequest(in, request) ==
  [in EXCEPT !.handled = request,
             !.tasks = Append(@, request),
             !.written = Append(@, Reply("request_accepted", request))]

\* queued: _handleDataRequest: without a broker connection an error is
\* written at once; else sendTask publishes the task (or throws) before
\* the handler returns, and the reply is left to the jobs of its promise.
queuedHandleDataRequest(in, request, connected, throws) ==
  IF ~connected
    THEN [in EXCEPT !.handled = request,
                    !.written = Append(@, Reply("error", request))]
    ELSE [in EXCEPT !.handled = request,
                    !.tasks = IF throws THEN @ ELSE Append(@, request),
                    !.jobs = enqueueJob(@, Job(request, ~throws, 1))]

\* The next request_data frame reaches the socket of the connection.
RequestArrives ==
  /\ intake.arrived < MaxRequests
  /\ intake' = [intake EXCEPT !.arrived = @ + 1]
  /\ UNCHANGED <<serverVars, batchRun, wsClient, clientObs, consumer, backoff, session>>

\* ws emits 'message' for the oldest frame not handled yet; two frames of
\* one chunk are emitted without a promise job running in between.
RequestMessage(connected, throws) ==
  /\ intake.handled < intake.arrived
  /\ variant = "simple" => connected /\ ~throws
  /\ intake' = IF variant = "simple"
                 THEN simpleHandleDataRequest(intake, intake.handled + 1)
                 ELSE queuedHandleDataRequest(intake, intake.handled + 1, connected, throws)
  /\ UNCHANGED <<serverVars, batchRun, wsClient, clientObs, consumer, backoff, session>>

\* The oldest promise job runs: the .then callback writes request_accepted;
\* a rejection passes .then and queues the job of .catch, which writes the
\* error.
PromiseJob ==
  /\ intake.jobs # <<>>
  /\ LET job == Head(intake.jobs)
         rest == Tail(intake.jobs)
     IN  intake' =
           IF job.fulfilled
             THEN [intake EXCEPT !.jobs = rest,
                                 !.written = Append(@, Reply("request_accepted", job.request))]
           ELSE IF job.hop = 1
             THEN [intake EXCEPT !.jobs = enqueueJob(rest, Job(job.request, FALSE, 2))]
           ELSE [intake EXCEPT !.jobs = rest,
                               !.written = Append(@, Reply("error", job.request))]
  /\ UNCHANGED <<serverVars, batchRun, wsClient, clientObs, consumer, backoff, session>>

NextRequests ==
  \/ RequestArrives
  \/ \E connected \in BOOLEAN, throws \in BOOLEAN : RequestMessage(connected, throws)
  \/ PromiseJob

SpecRequests == Init /\ [][NextRequests]_vars

(***************************************************************************)
(* A WSClient and the server side of its connections                       *)
(***************************************************************************)
\* The tokens the application gives the client: a valid one and one whose
\* signature was altered.  Frames in flight on the current socket, both
\* directions together, are at most MaxInFlight.
SessionTokens == {generateToken("1", StartTime), Tamper(generateToken("1", StartTime))}
SessionConns == 1..MaxSockets

\* JSON.stringify on the server, JSON.parse on the client: a data frame
\* carries its requestId inside payload, the others at the top level.
asServerFrame(frame) ==
  ServerFrame(TRUE, frame.type,
              IF frame.type = "data" THEN Null ELSE frame.requestId,
              IF frame.type = "data" THEN frame.requestId ELSE Null,
              FALSE, frame.userId)

\* The connection of the client's current socket (0 before the first).
current(s) == s.client.sockets

\* The frames in flight when connect() replaced the socket or not.
inFlightAfterConnect(cl, frames) == IF createsSocket(cl) THEN <<>> ELSE frames

\* new WSClient(url, options): options.authToken may be absent.
SessionNew(token, autoConnect) ==
  /\ session.client.kind = "none"
  /\ LET cl == [NoClient EXCEPT !.kind = "WSClient", !.authToken = (token # NoToken)]
     IN  session' = [session EXCEPT !.client = IF autoConnect THEN connect(cl) ELSE cl,
                                    !.token = token]
  /\ UNCHANGED <<serverVars, batchRun, wsClient, clientObs, consumer, backoff, intake>>

\* The application calls connect().
SessionConnect ==
  /\ session.client.kind # "none"
  /\ createsSocket(session.client) => session.client.sockets < MaxSockets
  /\ session' = [session EXCEPT
                   !.client = connect(@),
                   !.toServer = inFlightAfterConnect(session.client, @),
                   !.toClient = inFlightAfterConnect(session.client, @)]
  /\ UNCHANGED <<serverVars, batchRun, wsClient, clientObs, consumer, backoff, intake>>

\* wss.on('connection') for the client's socket: the connection has its
\* clientState and the welcome frame is written.
SessionAccept ==
  /\ session.client.socket = "CONNECTING"
  /\ session.srv[current(session)].ws = "NONE"
  /\ session' = [session EXCEPT
                   !.srv[current(session)].ws = "OPEN",
                   !.toClient = Append(@, asServerFrame(WelcomeFrame(current(session))))]
  /\ UNCHANGED <<serverVars, batchRun, wsClient, clientObs, consumer, backoff, intake>>

\* The open event of the client's socket: _handleOpen sends the stored
\* token.
SessionOpen ==
  /\ session.client.socket = "CONNECTING"
  /\ session.srv[current(session)].ws # "NONE"
  /\ session' = [session EXCEPT
                   !.client = handleOpen(@),
                   !.toServer = IF session.client.authToken
                                  THEN Append(@, Msg("auth", session.token, Null))
                                  ELSE @]
  /\ UNCHANGED <<serverVars, batchRun, wsClient, clientObs, consumer, backoff, intake>>

\* authenticate(token): the token is stored and, if the socket is open,
\* an auth frame sent.
SessionAuthenticate(token) ==
  /\ session.client.kind # "none"
  /\ Len(session.toServer) + Len(session.toClient) < MaxInFlight
  /\ session' = [session EXCEPT
                   !.client.authToken = TRUE,
                   !.token = token,
                   !.toServer = IF session.client.socket = "OPEN"
                                  THEN Append(@, Msg("auth", token, Null))
                                  ELSE @]
  /\ UNCHANGED <<serverVars, batchRun, wsClient, clientObs, consumer, backoff, intake>>

\* The server handles the oldest frame of the connection: handleAuth /
\* _handleAuth.
SessionServerMessage ==
  /\ session.toServer # <<>>
  /\ session.srv[current(session)].ws = "OPEN"
  /\ LET c == current(session)
         userId == authUser(Head(session.toServer), now)
     IN  session' =
           IF userId = Null
             THEN [session EXCEPT
                     !.toServer = Tail(@),
                     !.toClient = Append(@, asServerFrame(Frame("auth_failure", Null, Null, 0, 0)))]
             ELSE [session EXCEPT
                     !.toServer = Tail(@),
                     !.srv[c].userId = userId,
                     !.srv[c].authenticated = TRUE,
                     !.userConnections = register(@, userId, c),
                     !.toClient = Append(@, asServerFrame(Frame("auth_success", userId, Null, 0, 0)))]
  /\ UNCHANGED <<serverVars, batchRun, wsClient, clientObs, consumer, backoff, intake>>

\* The client handles the oldest frame of its socket: _handleMessage.
SessionClientMessage ==
  /\ session.toClient # <<>>
  /\ session.client.socket = "OPEN"
  /\ session' = [session EXCEPT
                   !.client = wsHandleMessage(variant, @, Head(session.toClient),
                                              FALSE, FALSE).client,
                   !.toClient = Tail(@)]
  /\ UNCHANGED <<serverVars, batchRun, wsClient, clientObs, consumer, backoff, intake>>

\* ws.on('close') on the server, for any reason (the peer closed, the
\* network failed, the heartbeat check terminated the connection): the
\* connection is removed from the set of clientState.userId.
SessionServerClose(c) ==
  /\ session.srv[c].ws = "OPEN"
  /\ session' = [session EXCEPT
                   !.srv[c].ws = "CLOSED",
                   !.userConnections = unregister(@, session.srv[c].userId, c)]
  /\ UNCHANGED <<serverVars, batchRun, wsClient, clientObs, consumer, backoff, intake>>

\* The close event of the client's current socket: _handleClose.  Frames
\* not delivered before it are lost.
SessionClientClose ==
  /\ session.client.socket \in {"CONNECTING", "OPEN"}
  /\ session' = [session EXCEPT
                   !.client = [handleClose(@) EXCEPT !.socket = "CLOSED"],
                   !.toClient = <<>>]
  /\ UNCHANGED <<serverVars, batchRun, wsClient, clientObs, consumer, backoff, intake>>

\* The close event of a socket the client closed itself.
SessionOrphanClose ==
  /\ session.client.orphans > 0
  /\ session' = [session EXCEPT !.client = [handleClose(@) EXCEPT !.orphans = @ - 1]]
  /\ UNCHANGED <<serverVars, batchRun, wsClient, clientObs, consumer, backoff, intake>>

\* The timeout of _reconnect fires.
SessionReconnectTimer ==
  /\ session.client.reconnectTimers > 0
  /\ LET cl == [session.client EXCEPT !.reconnectTimers = @ - 1,
                                      !.reconnectAttempts = @ + 1]
     IN  /\ createsSocket(cl) => cl.sockets < MaxSockets
         /\ session' = [session EXCEPT
                          !.client = connect(cl),
                          !.toServer = inFlightAfterConnect(cl, @),
                          !.toClient = inFlightAfterConnect(cl, @)]
  /\ UNCHANGED <<serverVars, batchRun, wsClient, clientObs, consumer, backoff, intake>>

\* disconnect(): the socket is closed and forgotten; a closing socket
\* delivers no more frames.
SessionDisconnect ==
  /\ session.client.kind # "none"
  /\ session' = [session EXCEPT !.client = disconnect(@), !.toClient = <<>>]
  /\ UNCHANGED <<serverVars, batchRun, wsClient, clientObs, consumer, backoff, intake>>

NextSession ==
  \/ \E token \in SessionTokens \cup {NoToken}, autoConnect \in BOOLEAN :
       SessionNew(token, autoConnect)
  \/ SessionConnect
  \/ SessionAccept
  \/ SessionOpen
  \/ \E token \in SessionTokens : SessionAuthenticate(token)
  \/ SessionServerMessage
  \/ SessionClientMessage
  \/ \E c \in SessionConns : SessionServerClose(c)
  \/ SessionClientClose
  \/ SessionOrphanClose
  \/ SessionReconnectTimer
  \/ SessionDisconnect

SpecSession == Init /\ [][NextSession]_vars

(***************************************************************************)
(* C1..C10                                                                 *)
(***************************************************************************)
Registered(u) == Range(connectionsFor(userConnections, u))

\* C1: the user-to-connections index holds a non-empty set for a user only
\* if a connection that has not been closed is registered for that user;
\* a connection whose close has been handled is in no user's set.
C1_NoClosedConnectionRegistered ==
  \A u \in DOMAIN userConnections :
    /\ \A c \in Range(userConnections[u]) : ws[c] # "CLOSED"
    /\ Len(userConnections[u]) > 0 =>
         \E c \in Range(userConnections[u]) :
           ws[c] \in {"OPEN", "CLOSING"} /\ clientState[c].userId = u

\* C2: a connection appears in at most one user's connection set.
C2_AtMostOneBucket ==
  \A c \in Conns : \A u1, u2 \in DOMAIN userConnections :
    (c \in Range(userConnections[u1]) /\ c \in Range(userConnections[u2])) => u1 = u2

\* The last handler was a fan-out: the completion callback of the simple
\* server or the result consumer of the queued server.
IsDispatch == lastEvent.kind \in {"dispatch", "consumeResults"}
LogIndexes(outcomes) == {i \in DOMAIN sendLog : sendLog[i].outcome \in outcomes}

\* C3: sendToUser returns the number of the user's registered connections
\* whose write succeeded; a write that throws and a connection that is not
\* open count as failures, every registered connection is still served,
\* and no exception leaves sendToUser.
C3_SendToUserCountsSuccessfulWrites ==
  IsDispatch =>
    /\ ~lastEvent.threw
    /\ lastEvent.ret = Cardinality(LogIndexes({"sent"}))
    /\ \A c \in Registered(lastEvent.userId) :
         (variant = "simple" \/ c \in clients) =>
           Cardinality({i \in DOMAIN sendLog : sendLog[i].to = c}) = 1
    /\ \A i \in DOMAIN sendLog :
         /\ sendLog[i].to \in Registered(lastEvent.userId)
         /\ sendLog[i].outcome = "notopen" <=> ws[sendLog[i].to] # "OPEN"

\* C3 witness: the write to the first of two connections failed, the
\* write to the second succeeded, sendToUser returned 1.
C3_Witness ==
  /\ IsDispatch
  /\ Len(sendLog) = 2
  /\ sendLog[1].outcome = "threw"
  /\ sendLog[2].outcome = "sent"
  /\ lastEvent.ret = 1

\* The writes (ws.send calls) of the last fan-out to connection c that
\* carry the dispatched result.
ResultWrites(c) ==
  {i \in LogIndexes({"sent", "threw"}) :
     /\ sendLog[i].to = c
     /\ sendLog[i].frame.type = "data"
     /\ sendLog[i].frame.userId = lastEvent.userId
     /\ sendLog[i].frame.taskId = lastEvent.taskId}

\* C4: a dispatch of a result of user U makes exactly one write to every
\* connection that is open and in U's set at that moment, and none to any
\* other connection, whoever issued the request and whenever the
\* connection authenticated.
C4_ResultWrittenOnceToEveryOpenConnection ==
  IsDispatch =>
    \A c \in Conns :
      Cardinality(ResultWrites(c)) =
        IF c \in Registered(lastEvent.userId) /\ ws[c] = "OPEN" THEN 1 ELSE 0

\* C4 witness: the result reached a connection that was not registered for
\* the user when the request was submitted (so it neither issued the
\* request nor had authenticated by then).
C4_Witness ==
  /\ IsDispatch
  /\ \E i \in LogIndexes({"sent"}) :
       sendLog[i].to \notin tasks[lastEvent.taskId].registeredAtSubmit

\* C5: for a user without registered connection sendToUser writes nothing
\* and returns 0, and the queued server then acknowledges the result
\* message, which leaves the result queue for good.
C5_UndeliverableResultIsAcked ==
  (IsDispatch /\ Registered(lastEvent.userId) = {}) =>
    /\ sendLog = <<>>
    /\ lastEvent.ret = 0
    /\ lastEvent.kind = "consumeResults" =>
         /\ lastEvent.ack = "ack"
         /\ \A i \in DOMAIN resultQueue : resultQueue[i].taskId # lastEvent.taskId

\* C5 witness: the result consumer handled a result of a user who has no
\* connection and acknowledged it.
C5_Witness ==
  /\ lastEvent.kind = "consumeResults"
  /\ Registered(lastEvent.userId) = {}
  /\ lastEvent.ack = "ack"
  /\ lastEvent.ret = 0

\* C6: a check that finds the connection silent for longer than the
\* timeout terminates it, and once the close of a connection terminated
\* by the monitor has been handled, the connection is in no user's set
\* and its timer is stopped.
C6_TimedOutConnectionTerminatedAndUnregistered ==
  \A c \in Conns :
    /\ (lastEvent.kind = "heartbeatCheck" /\ lastEvent.conn = c) =>
         now - lastFrameAt[c] <= Timeout(variant)
    /\ (timer[c].timedOut /\ ws[c] = "CLOSED") =>
         /\ ~timer[c].active
         /\ \A u \in Users : c \notin Registered(u)

\* C7: the monitor terminates a connection only if its most recent frame
\* is older than the timeout at the time of the check.
C7_NoTerminationWithinTimeout ==
  lastEvent.kind = "heartbeatTimeout" =>
    now - lastFrameAt[lastEvent.conn] > Timeout(variant)

\* C8: every received frame, valid JSON or not, of whatever type, sets the
\* connection's lastHeartbeat to the time of receipt.
C8_EveryFrameRefreshesLastHeartbeat ==
  lastEvent.kind = "message" =>
    clientState[lastEvent.conn].lastHeartbeat = now

\* A token that was issued by the login endpoint (intact signature), and
\* has not expired at the given time.
IssuedAndUnexpired(token, t) == token.sig = "good" /\ t < token.exp
IsAuthEvent(e) == e.kind = "message" /\ e.frame.type = "auth"

\* C9: an auth frame with a valid token of user u is answered with exactly
\* one frame, auth_success with userId u, and the connection is registered
\* under u; an auth frame with a tampered, expired or missing token is
\* answered with exactly one frame, auth_failure.
C9_AuthAnsweredByTokenValidity ==
  IsAuthEvent(lastEvent) =>
    LET c == lastEvent.conn
        token == lastEvent.frame.token
    IN  /\ Len(sendLog) = 1
        /\ sendLog[1].to = c
        /\ sendLog[1].outcome # "notopen"
        /\ IF IssuedAndUnexpired(token, now)
             THEN /\ sendLog[1].frame = Frame("auth_success", token.userId, Null, 0, 0)
                  /\ c \in Registered(token.userId)
                  /\ clientState[c].userId = token.userId
                  /\ clientState[c].authenticated
             ELSE sendLog[1].frame.type = "auth_failure"

\* C9 witness: the token that expires during the run was accepted while it
\* was still valid, and auth_success for user "1" was sent.
C9_Witness ==
  /\ IsAuthEvent(lastEvent)
  /\ lastEvent.frame.token = ExpiringToken
  /\ now > StartTime
  /\ sendLog[1].frame.type = "auth_success"
  /\ sendLog[1].frame.userId = "1"
  /\ sendLog[1].outcome = "sent"

\* C10: handling an auth frame whose token is missing, tampered or expired
\* leaves every socket as it was and changes no connection's userId or
\* authenticated flag and no user's connection set.
RejectedAuthStep ==
  /\ IsAuthEvent(lastEvent')
  /\ ~IssuedAndUnexpired(lastEvent'.frame.token, now)

C10_RejectedAuthChangesNothing ==
  [][RejectedAuthStep =>
       /\ ws' = ws
       /\ userConnections' = userConnections
       /\ \A c \in Conns :
            /\ clientState'[c].userId = clientState[c].userId
            /\ clientState'[c].authenticated = clientState[c].authenticated]_vars

\* C10 witness: a rejected auth frame on a connection that had
\* authenticated before; it is still open and authenticated.
C10_Witness ==
  /\ IsAuthEvent(lastEvent)
  /\ ~IssuedAndUnexpired(lastEvent.frame.token, now)
  /\ lastEvent.frame.token.sig = "good"
  /\ ws[lastEvent.conn] = "OPEN"
  /\ clientState[lastEvent.conn].authenticated
  /\ lastEvent.conn \in Registered(clientState[lastEvent.conn].userId)

(***************************************************************************)
(* C11..C20                                                                *)
(***************************************************************************)
\* A step that handles a request_data frame on a connection that was not
\* authenticated when the frame arrived.
UnauthRequestStep ==
  /\ lastEvent'.kind = "message"
  /\ lastEvent'.frame.type = "request_data"
  /\ ~clientState[lastEvent'.conn].authenticated

\* C11: a request_data frame on an unauthenticated connection is answered
\* with exactly one frame, an error frame on that connection; no task is
\* created or published, no request_accepted is written, and the sockets,
\* every connection's userId and authenticated flag and the registry stay
\* as they were.
C11_UnauthenticatedRequestRejected ==
  [][UnauthRequestStep =>
       /\ Len(sendLog') = 1
       /\ sendLog'[1].to = lastEvent'.conn
       /\ sendLog'[1].frame.type = "error"
       /\ sendLog'[1].outcome # "notopen"
       /\ tasks' = tasks
       /\ taskQueue' = taskQueue
       /\ resultQueue' = resultQueue
       /\ ws' = ws
       /\ clients' = clients
       /\ userConnections' = userConnections
       /\ \A c \in Conns :
            /\ clientState'[c].userId = clientState[c].userId
            /\ clientState'[c].authenticated = clientState[c].authenticated]_vars

\* C11 witness: the error frame went out to an unauthenticated connection
\* while another connection of the server is authenticated and registered;
\* no task exists.
C11_Witness ==
  /\ lastEvent.kind = "message"
  /\ lastEvent.frame.type = "request_data"
  /\ ~clientState[lastEvent.conn].authenticated
  /\ sendLog[1].frame.type = "error"
  /\ sendLog[1].outcome = "sent"
  /\ \E d \in Conns \ {lastEvent.conn} :
       clientState[d].authenticated /\ d \in Registered(clientState[d].userId)
  /\ \A t \in TaskIds : tasks[t].status = "none"

\* The message types the switch of a server has a case for.
HandledTypes(v) ==
  IF v = "simple" THEN {"auth", "pong", "request_data"}
                  ELSE {"auth", "ping", "request_data"}

\* A step that handles a frame that is not valid JSON or whose type has no
\* case in the server's switch.
UnhandledFrameStep ==
  /\ lastEvent'.kind = "message"
  /\ \/ ~lastEvent'.frame.json
     \/ lastEvent'.frame.type \notin HandledTypes(variant)

\* C12: in both servers a frame that is not valid JSON or whose type is not
\* handled is answered with exactly one frame, an error frame on that
\* connection; the connection stays open and the registry is unchanged.
C12_UnhandledFrameAnsweredWithError ==
  [][UnhandledFrameStep =>
       /\ Len(sendLog') = 1
       /\ sendLog'[1].to = lastEvent'.conn
       /\ sendLog'[1].frame.type = "error"
       /\ ws'[lastEvent'.conn] = "OPEN"
       /\ userConnections' = userConnections]_vars

\* A step in which the server accepts a request as task t: the task did
\* not exist before the step and exists after it.
AcceptStep(t) == tasks[t].status = "none" /\ tasks'[t].status # "none"

\* C13: the step that accepts a request_data frame as task t writes exactly
\* one frame, request_accepted with the frame's requestId and the fresh
\* taskId t, to the issuing connection; no other step writes a
\* request_accepted frame, and a data frame of a task (carrying its
\* requestId) is written only in a later step than the one that accepted
\* it, hence after its request_accepted frame.
C13_RequestAcceptedOnceBeforeData ==
  [][/\ \A t \in TaskIds :
          AcceptStep(t) =>
            /\ lastEvent'.kind = "message"
            /\ lastEvent'.frame.type = "request_data"
            /\ clientState[lastEvent'.conn].authenticated
            /\ Len(sendLog') = 1
            /\ sendLog'[1].to = lastEvent'.conn
            /\ sendLog'[1].outcome # "notopen"
            /\ sendLog'[1].frame =
                 Frame("request_accepted", Null, lastEvent'.frame.requestId, t, 0)
     /\ \A i \in DOMAIN sendLog' :
          LET f == sendLog'[i].frame
          IN  /\ f.type = "request_accepted" => AcceptStep(f.taskId)
              /\ f.type = "data" =>
                   /\ tasks[f.taskId].status # "none"
                   /\ f.requestId = tasks[f.taskId].requestId]_vars

\* C13 witness: a data frame of an accepted request reached the only
\* connection the server ever had, which is the one that issued the
\* request and got request_accepted in the step that created the task.
C13_Witness ==
  /\ IsDispatch
  /\ \E i \in LogIndexes({"sent"}) :
       /\ sendLog[i].frame.type = "data"
       /\ sendLog[i].frame.requestId = tasks[sendLog[i].frame.taskId].requestId
       /\ sendLog[i].to \in tasks[sendLog[i].frame.taskId].registeredAtSubmit
       /\ \A d \in Conns \ {sendLog[i].to} : ws[d] = "NONE"

\* The items of the first n results, one after the other.
RECURSIVE BatchItemsUpTo(_)
BatchItemsUpTo(n) ==
  IF n = 0 THEN <<>> ELSE BatchItemsUpTo(n - 1) \o batchRun.results[n].results

\* C14: for a dataset of N >= 1 items, the batches emitted so far carry
\* consecutive slices of the dataset in order (together its first
\* processedItems items, the whole dataset once the run is done); each
\* batch's processedItems is the cumulative item count, grows strictly
\* from batch to batch, never exceeds totalItems = N and equals N on the
\* last batch; batchNumber counts 1, 2, 3, ...
C14_BatchesPartitionTheDataset ==
  Len(batchRun.items) >= 1 =>
    LET results == batchRun.results
        N == Len(batchRun.items)
    IN  /\ \A i \in DOMAIN results :
             /\ results[i].totalItems = N
             /\ results[i].batchNumber = i
             /\ results[i].processedItems = Len(BatchItemsUpTo(i))
             /\ results[i].processedItems <= N
             /\ results[i].processedItems >
                  (IF i = 1 THEN 0 ELSE results[i - 1].processedItems)
             /\ BatchItemsUpTo(i) = SubSeq(batchRun.items, 1, results[i].processedItems)
        /\ batchRun.task.stage = "done" =>
             /\ results[Len(results)].processedItems = N
             /\ BatchItemsUpTo(Len(results)) = batchRun.items
        /\ batchRun.task.stage = "batching" => results[Len(results)].processedItems < N

\* C14 witness: a finished run over more items than one batch can hold, in
\* three or more batches, one of them of the largest size and the last one
\* cut to the items that remained.
C14_Witness ==
  /\ batchRun.task.stage = "done"
  /\ Len(batchRun.items) > MaxBatchSize
  /\ Len(batchRun.results) >= 3
  /\ Len(batchRun.results[1].results) = MaxBatchSize
  /\ Len(batchRun.results[Len(batchRun.results)].results) = 1

\* A step in which a WSClient handles a frame of the given type that
\* carries the given request id, for which it has an entry.
PendingFrameStep(type, requestId) ==
  /\ wsClient.kind = "WSClient"
  /\ clientObs'.kind = "message"
  /\ clientObs'.frame.type = type
  /\ requestIdOf("WSClient", clientObs'.frame) = requestId
  /\ requestId \in DOMAIN wsClient.requestCallbacks

\* C15: after a WSClient has handled a data frame for a pending request,
\* the entry is gone if it was registered as one-shot (with or without an
\* onData callback), and is still there, unchanged, if it was registered
\* with once = false.
C15_OneShotEntryGoneAfterData ==
  [][\A r \in ClientReqIds :
       PendingFrameStep("data", r) =>
         IF wsClient.requestCallbacks[r].once
           THEN r \notin DOMAIN wsClient'.requestCallbacks
           ELSE /\ r \in DOMAIN wsClient'.requestCallbacks
                /\ wsClient'.requestCallbacks[r] = wsClient.requestCallbacks[r]]_vars

\* C16: after a WSClient has handled an error frame that carries the
\* requestId of a pending request, the entry is gone, one-shot or not,
\* with or without an onError callback.
C16_ErrorFrameRemovesEntry ==
  [][\A r \in ClientReqIds :
       PendingFrameStep("error", r) => r \notin DOMAIN wsClient'.requestCallbacks]_vars

\* C17: a data frame that is not the final batch (isFinal false) leaves the
\* one-shot entry of its request registered and reaches its onData
\* callback; the entry goes with the batch whose isFinal is true.
C17_OneShotEntryKeptUntilFinalBatch ==
  [][\A r \in ClientReqIds :
       (/\ PendingFrameStep("data", r)
        /\ wsClient.requestCallbacks[r].once
        /\ wsClient.requestCallbacks[r].onData) =>
         /\ clientObs'.called[1] = "onData"
         /\ ~clientObs'.frame.isFinal => r \in DOMAIN wsClient'.requestCallbacks]_vars

\* C18: when the connection of a WSClient has been torn down, by
\* disconnect() or by a close the client did not ask for, no pending
\* request is left and no request callback was invoked.
C18_TeardownRemovesPendingRequests ==
  (wsClient.kind = "WSClient" /\ clientObs.kind \in {"close", "orphanClose", "disconnect"}) =>
    /\ DOMAIN wsClient.requestCallbacks = {}
    /\ \A i \in DOMAIN clientObs.called :
         clientObs.called[i] \notin {"onAccepted", "onData", "onError"}

\* A step in which a client handles a data, error or request_accepted
\* frame whose request id it has no entry for.
UnmatchedFrameStep ==
  /\ clientObs'.kind = "message"
  /\ clientObs'.frame.type \in {"data", "error", "request_accepted"}
  /\ ~has(pending(wsClient), requestIdOf(wsClient.kind, clientObs'.frame))

\* C19: a data, error or request_accepted frame whose requestId matches no
\* pending request invokes no request callback (only the global message
\* handler), sends nothing to the server and leaves the client as it was:
\* the pending requests unchanged and the socket open for the next frame.
C19_UnmatchedFrameDropped ==
  [][UnmatchedFrameStep =>
       /\ wsClient' = wsClient
       /\ wsClient'.socket = "OPEN"
       /\ clientObs'.sent = <<>>
       /\ \A i \in DOMAIN clientObs'.called : clientObs'.called[i] = "onMessage"]_vars

\* C19 witness: a WSClient with a pending request handled a data frame
\* for another request id; only the global handler ran and the pending
\* request is still there.
C19_Witness ==
  /\ wsClient.kind = "WSClient"
  /\ clientObs.kind = "message"
  /\ clientObs.frame.type = "data"
  /\ clientObs.frame.payloadRequestId = UnknownReqId
  /\ ~clientObs.matched
  /\ clientObs.called = <<"onMessage">>
  /\ clientObs.sent = <<>>
  /\ DOMAIN wsClient.requestCallbacks = ClientReqIds
  /\ wsClient.socket = "OPEN"

\* C20: a step that settles a delivery makes exactly one channel call for
\* it: ack if and only if the handler returned, nack if it threw (or the
\* content did not parse); the acked message is off its queue, the nacked
\* one is back on it; and the delivery settled is a new one or the one
\* whose handler has just finished, never one still being handled.
C20_OneAckDecisionPerDelivery ==
  [][consumer'.last # consumer.last =>
       LET d == consumer'.last
       IN  /\ Len(d.calls) = 1
           /\ d.calls[1] \in {"ack", "nack"}
           /\ d.calls[1] = "ack" <=> d.handler = "returned"
           /\ d.calls[1] = "nack" <=> d.handler \in {"threw", "parse"}
           /\ d.tag \in {consumer.handling.tag, consumer.tag + 1}
           /\ d.tag # consumer'.handling.tag
           /\ IF d.queue = "task_queue"
                THEN consumer'.taskQueue =
                       IF d.calls[1] = "ack" THEN Tail(consumer.taskQueue)
                                             ELSE consumer.taskQueue
                ELSE consumer'.resultQueue =
                       IF d.calls[1] = "ack" THEN Tail(consumer.resultQueue)
                                             ELSE consumer.resultQueue]_vars

\* C20 witness: a task whose handler threw was nacked and delivered again,
\* and the second delivery was acked after the handler had returned; a
\* result is on the result queue.
C20_Witness ==
  /\ consumer.last.queue = "task_queue"
  /\ consumer.last.tag >= 2
  /\ consumer.last.handler = "returned"
  /\ consumer.last.calls = <<"ack">>
  /\ consumer.taskQueue = <<>>
  /\ consumer.resultQueue # <<>>

(***************************************************************************)
(* C21..C30                                                                *)
(***************************************************************************)
\* A step in which the queue client of the server, whose connection had
\* just dropped, is connected again by its retry timer.
BrokerReconnectStep ==
  /\ lastEvent.kind = "mqClose"
  /\ lastEvent'.kind = "mqConnect"
  /\ mq'.connected

\* C21: once the queue client has reconnected after a drop of the broker
\* connection, the server consumes the result queue again, so that a
\* result published from then on can be dispatched.
C21_ConsumesAgainAfterReconnect ==
  [][BrokerReconnectStep => mq'.consuming]_vars

\* A step in which the backend fails a request: the simple server's task
\* cannot read or parse its data file, or the queued server cannot publish
\* the task of an authenticated connection (queue client not connected, or
\* sendTask rejected).
TaskFailureStep(t) == \E faults \in SUBSET Conns : ReadFileError(t, faults)
PublishFailureStep ==
  /\ variant = "queued"
  /\ lastEvent'.kind = "message"
  /\ lastEvent'.frame.type = "request_data"
  /\ clientState[lastEvent'.conn].authenticated
  /\ tasks' = tasks

\* C22: every frame written for a backend failure of a request is an error
\* frame that carries the request's requestId, and none is a
\* request_accepted frame: one frame to the issuing connection when the
\* publish fails, one to every open connection of the requesting user when
\* the task fails.
C22_BackendFailureReportedAsErrorFrame ==
  [][/\ PublishFailureStep =>
          /\ Len(sendLog') = 1
          /\ sendLog'[1].to = lastEvent'.conn
          /\ sendLog'[1].frame = Frame("error", Null, lastEvent'.frame.requestId, 0, 0)
     /\ \A t \in TaskIds :
          TaskFailureStep(t) =>
            /\ \A c \in Registered(tasks[t].userId) :
                 ws[c] = "OPEN" => \E i \in DOMAIN sendLog' : sendLog'[i].to = c
            /\ \A i \in DOMAIN sendLog' :
                 /\ sendLog'[i].frame.type = "error"
                 /\ sendLog'[i].frame.requestId = tasks[t].requestId]_vars

\* A step that closes a connection or handles its close event.
CloseStep == lastEvent'.kind \in {"peerClose", "close"}

\* A step that dispatches a result of a user who has no registered
\* connection.
UndeliverableDispatchStep ==
  /\ lastEvent'.kind \in {"dispatch", "consumeResults"}
  /\ Registered(lastEvent'.userId) = {}

\* The statuses a task ends in.
TerminalStatuses == {"completed", "error"}

\* C23: closing a connection leaves every task and both queues as they
\* were, so a submitted task goes on; a result produced while its user has
\* no registered connection is written nowhere and raises no error, the
\* task moves on past it (it is not retried) and the queued server takes
\* the message off the result queue (it is not requeued); and when such a
\* task has produced its last result its status is a terminal one.
C23_CloseDoesNotCancelTask ==
  [][/\ CloseStep => (tasks' = tasks /\ taskQueue' = taskQueue /\ resultQueue' = resultQueue)
     /\ UndeliverableDispatchStep =>
          LET t == lastEvent'.taskId
          IN  /\ sendLog' = <<>>
              /\ lastEvent'.ret = 0
              /\ ~lastEvent'.threw
              /\ userConnections' = userConnections
              /\ taskQueue' = taskQueue
              /\ IF variant = "queued"
                   THEN /\ lastEvent'.ack = "ack"
                        /\ resultQueue' = Tail(resultQueue)
                        /\ tasks' = tasks
                   ELSE /\ resultQueue' = resultQueue
                        /\ tasks'[t].stage \in {"batching", "done"}
                        /\ tasks'[t].stage = "batching" =>
                             tasks'[t].processedItems > tasks[t].processedItems
                        /\ tasks'[t].stage = "done" =>
                             /\ tasks'[t].processedItems = tasks'[t].totalItems
                             /\ tasks'[t].status \in TerminalStatuses]_vars

\* C24: the delays a WSClient schedules over consecutive failed reconnect
\* attempts: the first is min(cap, base), each next one is min(cap, 1.5 x
\* the one before), so a delay below the cap of 30000 ms is followed by a
\* strictly larger one, a delay at the cap by the cap, and no delay exceeds
\* the cap.
C24_BackoffIncreasesUpToCap ==
  LET d == backoff.delays
      cap == Ms(MaxReconnectDelay)
  IN  /\ Len(d) >= 1 => d[1] = Min(cap, Ms(backoff.reconnectInterval))
      /\ \A i \in DOMAIN d :
           /\ d[i] <= cap
           /\ d[i] > 0
           /\ i > 1 =>
                /\ 2 * d[i] = Min(2 * cap, 3 * d[i - 1])
                /\ d[i - 1] < cap => d[i] > d[i - 1]
                /\ d[i - 1] = cap => d[i] = cap

\* C24 witness: with the default interval the delays grew from 3000 ms
\* through 15187.5 ms to the cap and stayed there.
C24_Witness ==
  /\ backoff.reconnectInterval = DefaultReconnectInterval
  /\ Len(backoff.delays) >= 8
  /\ backoff.delays[1] = Ms(DefaultReconnectInterval)
  /\ 2 * backoff.delays[5] = Ms(30375)
  /\ backoff.delays[6] < Ms(MaxReconnectDelay)
  /\ backoff.delays[7] = Ms(MaxReconnectDelay)
  /\ backoff.delays[8] = Ms(MaxReconnectDelay)

\* A step in which the socket of a WSClient opens.
OpenStep == wsClient.kind = "WSClient" /\ clientObs'.kind = "open"

\* A step in which the open socket of a WSClient closes without the client
\* having asked for it: _handleClose runs and _reconnect schedules the
\* first reconnect after a successful connection.
ClosureAfterSuccessStep ==
  /\ wsClient.kind = "WSClient"
  /\ wsClient.socket = "OPEN"
  /\ clientObs'.kind = "close"

\* C25: when the socket of a WSClient opens, reconnectAttempts becomes 0,
\* and when that open socket later closes, the delay _reconnect computes is
\* the base interval, whatever the number of attempts before the success.
C25_FirstDelayAfterSuccessIsBase ==
  [][/\ OpenStep => wsClient'.reconnectAttempts = 0
     /\ ClosureAfterSuccessStep =>
          reconnectDelay(DefaultReconnectInterval, wsClient'.reconnectAttempts)
            = Ms(DefaultReconnectInterval)]_vars

\* A step in which the heartbeat timer of an open connection fires and
\* does not terminate the connection.
HeartbeatFiringStep ==
  /\ lastEvent'.kind = "heartbeatCheck"
  /\ ws[lastEvent'.conn] = "OPEN"

\* C26: in both servers every firing of the heartbeat timer of an open
\* connection writes one ping frame to that connection, whatever the client
\* has sent, and the next firing is one heartbeat interval later.
C26_PingAtEveryHeartbeatInterval ==
  [][HeartbeatFiringStep =>
       LET c == lastEvent'.conn
       IN  /\ Len(sendLog') = 1
           /\ sendLog'[1].to = c
           /\ sendLog'[1].frame.type = "ping"
           /\ timer'[c].next = timer[c].next + WS_HEARTBEAT_INTERVAL]_vars

\* C27: a server that has handled a ping frame has written exactly one
\* frame for it, a pong frame on the connection the ping came from.
C27_PingAnsweredWithOnePong ==
  (lastEvent.kind = "message" /\ lastEvent.frame.type = "ping") =>
    /\ Len(sendLog) = 1
    /\ sendLog[1].to = lastEvent.conn
    /\ sendLog[1].frame.type = "pong"

\* How often x occurs in the sequence s.
Occurrences(s, x) == Cardinality({i \in DOMAIN s : s[i] = x})

\* The users whose set holds connection c.
BucketsOf(uc, c) == {u \in DOMAIN uc : c \in Range(uc[u])}

\* A step in which connection c, already registered for user u, handles
\* another auth frame with a valid token of u.
ReauthStep(c, u) ==
  /\ IsAuthEvent(lastEvent')
  /\ lastEvent'.conn = c
  /\ authUser(lastEvent'.frame, now) = u
  /\ c \in Registered(u)

\* C28: an auth frame with a valid token of user u on a connection that is
\* registered for u already leaves the registry as it was, the connection
\* once in u's set; a fan-out writes at most once to a connection; and the
\* close event of a connection that is registered for its own user only
\* leaves it in no user's set.
C28_RegisterIsIdempotent ==
  [][/\ \A c \in Conns, u \in Users :
          ReauthStep(c, u) =>
            /\ userConnections' = userConnections
            /\ Occurrences(userConnections'[u], c) = 1
            /\ clientState'[c].userId = u
            /\ clientState'[c].authenticated
     /\ \A u \in DOMAIN userConnections', c \in Conns :
          Occurrences(userConnections'[u], c) <= 1
     /\ lastEvent'.kind \in {"dispatch", "consumeResults"} =>
          \A c \in Conns :
            Cardinality({i \in DOMAIN sendLog' :
                           sendLog'[i].to = c /\ sendLog'[i].outcome # "notopen"}) =
              IF c \in Registered(lastEvent'.userId) /\ ws[c] = "OPEN" THEN 1 ELSE 0
     /\ \A c \in Conns :
          (lastEvent'.kind = "close" /\ lastEvent'.conn = c
             /\ BucketsOf(userConnections, c) \subseteq {clientState[c].userId}) =>
            BucketsOf(userConnections', c) = {}]_vars

\* C28 witness: a connection that was registered for the user of a task
\* when the task was submitted has just authenticated again as that user,
\* and the user's set holds this one connection once.
C28_Witness ==
  /\ IsAuthEvent(lastEvent)
  /\ \E t \in TaskIds :
       /\ tasks[t].status # "none"
       /\ authUser(lastEvent.frame, now) = tasks[t].userId
       /\ lastEvent.conn \in tasks[t].registeredAtSubmit
       /\ userConnections[tasks[t].userId] = <<lastEvent.conn>>
  /\ sendLog[1].frame.type = "auth_success"

\* Position of a status on the path pending -> processing -> completed or
\* error ("none": the task does not exist yet).
StatusRank(status) ==
  CASE status = "none" -> 0
    [] status = "pending" -> 1
    [] status = "processing" -> 2
    [] status \in TerminalStatuses -> 3

\* C29: in the simple server the status of a task never moves backwards
\* and never leaves a terminal status; the step in which processing fails
\* leaves the task in status error; the step that emits the last batch
\* leaves it in status completed.
C29_TaskStatusMovesForward ==
  [][variant = "simple" =>
       \A t \in TaskIds :
         /\ StatusRank(tasks'[t].status) >= StatusRank(tasks[t].status)
         /\ tasks[t].status \in TerminalStatuses => tasks'[t].status = tasks[t].status
         /\ TaskFailureStep(t) => tasks'[t].status = "error"
         /\ (tasks[t].stage # "done" /\ tasks'[t].stage = "done"
               /\ tasks'[t].batchNumber >= 1) =>
              tasks'[t].status = "completed"]_vars

\* A step in which the server accepts connection c.
AcceptedStep(c) == ws[c] = "NONE" /\ ws'[c] # "NONE"

\* C30: the step that accepts a connection writes exactly one frame, the
\* welcome frame with the connection's clientId, to that connection; no
\* other step writes a welcome frame, and a step writes to a connection
\* only if the connection was accepted in that step or before it, so the
\* welcome frame is the first frame written to the connection and the
\* only welcome frame.
C30_WelcomeOnceAndFirst ==
  [][/\ \A c \in Conns :
          AcceptedStep(c) =>
            /\ Len(sendLog') = 1
            /\ sendLog'[1].to = c
            /\ sendLog'[1].outcome # "notopen"
            /\ sendLog'[1].frame.type = "welcome"
            /\ sendLog'[1].frame.clientId = c
     /\ \A i \in DOMAIN sendLog' :
          /\ sendLog'[i].frame.type = "welcome" => AcceptedStep(sendLog'[i].to)
          /\ ~AcceptedStep(sendLog'[i].to) => ws[sendLog'[i].to] # "NONE"]_vars

\* C30 witness: the second connection has just been accepted and got its
\* welcome frame, with its own clientId, while the first connection is
\* open and authenticated.
C30_Witness ==
  /\ lastEvent.kind = "connection"
  /\ lastEvent.conn = 2
  /\ sendLog = <<[to |-> 2, frame |-> WelcomeFrame(2), outcome |-> "sent"]>>
  /\ ws[1] = "OPEN"
  /\ clientState[1].authenticated

(***************************************************************************)
(* C31..C40                                                                *)
(***************************************************************************)
\* A step that delivers the close event of the only socket a client ever
\* had, which the client closed itself by disconnect() / close() in the
\* handler before.
OwnClosureStep ==
  /\ clientObs.kind = "disconnect"
  /\ wsClient.sockets = 1
  /\ wsClient.orphans = 1
  /\ clientObs'.kind = "orphanClose"

\* C31: the close event of a socket the client closed itself schedules no
\* reconnect: no reconnect timer is added and no socket is created.
C31_NoReconnectAfterOwnDisconnect ==
  [][OwnClosureStep =>
       /\ wsClient'.reconnectTimers = wsClient.reconnectTimers
       /\ wsClient'.sockets = wsClient.sockets]_vars

\* A step in which a retry of the queue client succeeds after the attempt
\* before it had failed (the first such step of a run is the retry that
\* follows a failed attempt at start).
RetrySucceedsStep ==
  /\ lastEvent.kind = "mqConnect"
  /\ ~mq.connected
  /\ lastEvent'.kind = "mqConnect"
  /\ mq'.connected

\* C32: when a retry of the broker connection succeeds after the attempt
\* made at start had failed, the server's result consumer is registered.
C32_ConsumerRegisteredAfterRetry ==
  [][RetrySucceedsStep => mq'.consuming]_vars

\* The results of the run that carry isFinal = true.
FinalBatches == {i \in 1..Len(batchRun.results) : batchRun.results[i].isFinal}

\* C33: once a run has emitted its last result, exactly one result carries
\* isFinal = true and it is the last one; while batches are still to come
\* none carries it. This includes the run over an empty dataset.
C33_ExactlyOneFinalBatchAndItIsLast ==
  /\ batchRun.task.stage = "done" => FinalBatches = {Len(batchRun.results)}
  /\ batchRun.task.stage = "batching" => FinalBatches = {}

\* How often the last handler settled a promise of requestData.
Settlements == Occurrences(clientObs.called, "resolve") + Occurrences(clientObs.called, "reject")

\* A promise of TestWSClient.requestData is unsettled exactly while its
\* handler is registered, and then its 30 s timeout is pending.
PendingPromiseHasTimeout ==
  wsClient.kind = "TestWSClient" =>
    /\ wsClient.messageHandlers = wsClient.requestTimeouts
    /\ wsClient.messageHandlers \subseteq wsClient.issued

\* One handler of a TestWSClient: a frame with the id of a registered
\* request settles it (error: reject, any other: resolve) and removes the
\* handler; a frame with any other id settles nothing; the timeout of a
\* registered request rejects it, removes the handler and sends nothing; a
\* request that was settled is never registered again.
SettlesOnceStep ==
  wsClient'.kind = "TestWSClient" =>
    LET f == clientObs'.frame
        called == clientObs'.called
        resolves == Occurrences(called, "resolve")
        rejects == Occurrences(called, "reject")
    IN  /\ resolves + rejects <= 1
        /\ \A r \in wsClient.issued \ wsClient.messageHandlers :
             r \notin wsClient'.messageHandlers
        /\ (clientObs'.kind = "message" /\ f.type \in {"request_accepted", "data", "error"}) =>
             IF has(wsClient.messageHandlers, f.requestId)
               THEN /\ f.requestId \notin wsClient'.messageHandlers
                    /\ rejects = (IF f.type = "error" THEN 1 ELSE 0)
                    /\ resolves = 1 - rejects
               ELSE /\ resolves + rejects = 0
                    /\ wsClient'.messageHandlers = wsClient.messageHandlers
        /\ clientObs'.kind = "requestTimeout" =>
             /\ clientObs'.sent = <<>>
             /\ f.requestId \notin wsClient'.messageHandlers
             /\ resolves = 0
             /\ rejects = (IF f.requestId \in wsClient.messageHandlers THEN 1 ELSE 0)
        /\ clientObs'.kind \notin {"message", "requestTimeout", "requestData"} =>
             /\ resolves + rejects = 0
             /\ wsClient'.messageHandlers = wsClient.messageHandlers
        /\ clientObs'.kind = "requestData" =>
             /\ resolves = 0
             /\ rejects = 1 <=> f.requestId \notin wsClient'.messageHandlers
             /\ rejects = 1 => clientObs'.sent = <<>>

\* The client with its timers: a 30 s timeout that is pending fires.
SpecClientTimers ==
  SpecClient /\ \A requestId \in ClientReqIds : WF_vars(ClientRequestTimeout(requestId))

\* C34: the promise of TestWSClient.requestData settles exactly once: it
\* resolves on the first non-error frame with its requestId, rejects on an
\* error frame with its requestId, or rejects when its 30 s timeout fires;
\* after that its handler is gone, a later frame with that id has no effect,
\* and the timeout sends nothing.
C34_PromiseSettlesExactlyOnce ==
  /\ []PendingPromiseHasTimeout
  /\ [][SettlesOnceStep]_vars
  /\ \A r \in ClientReqIds :
       (wsClient.kind = "TestWSClient" /\ r \in wsClient.messageHandlers)
         ~> (r \notin wsClient.messageHandlers)

C34_Witness ==
  /\ wsClient.kind = "TestWSClient"
  /\ clientObs.kind = "message"
  /\ clientObs.frame.type = "request_accepted"
  /\ clientObs.matched
  /\ Settlements = 1
  /\ clientObs.frame.requestId \in wsClient.issued \ wsClient.messageHandlers

\* The requests whose request_accepted frame was written, in the order of
\* the writes.
RECURSIVE AcceptedOf(_)
AcceptedOf(written) ==
  IF written = <<>> THEN <<>>
  ELSE IF Head(written).type = "request_accepted"
         THEN <<Head(written).request>> \o AcceptedOf(Tail(written))
         ELSE AcceptedOf(Tail(written))

\* A sequence of request numbers in the order of their arrival.
InArrivalOrder(s) == \A i, j \in 1..Len(s) : i < j => s[i] < s[j]

\* C35: the requests of one connection are handled in the order of their
\* arrival: the tasks are created (simple) or published (queued) in that
\* order, and the request_accepted frames are written in that order.
C35_RequestsHandledInArrivalOrder ==
  /\ InArrivalOrder(intake.tasks)
  /\ InArrivalOrder(AcceptedOf(intake.written))
  /\ \A i \in 1..Len(AcceptedOf(intake.written)) :
       \E k \in 1..Len(intake.tasks) : intake.tasks[k] = AcceptedOf(intake.written)[i]

C35_Witness ==
  /\ variant = "queued"
  /\ intake.tasks = <<1, 2>>
  /\ AcceptedOf(intake.written) = <<1, 2>>

\* C36: a data frame with the result of a task of user U is written only to
\* connections that are authenticated as U at the time of the write.
C36_DataOnlyToConnectionsOfTheOwner ==
  IsDispatch =>
    \A i \in DOMAIN sendLog :
      (sendLog[i].frame.type = "data" /\ sendLog[i].outcome # "notopen") =>
        /\ clientState[sendLog[i].to].authenticated
        /\ clientState[sendLog[i].to].userId = lastEvent.userId

\* A step in which consumeTasks settles a delivery of the task queue.
TaskSettledStep ==
  /\ consumer'.last.queue = "task_queue"
  /\ consumer'.last.tag # consumer.last.tag

\* C37: the worker acknowledges a task only when a result was published
\* while the task was handled; a task whose handling threw (or whose
\* content could not be parsed) is negatively acknowledged and stays in the
\* queue, and nothing is published for it.
C37_AckOnlyAfterResultPublished ==
  [][TaskSettledStep =>
       IF consumer'.last.handler = "returned"
         THEN /\ consumer'.last.calls = <<"ack">>
              /\ consumer'.resultQueue = Append(consumer.resultQueue, "object")
              /\ consumer'.taskQueue = Tail(consumer.taskQueue)
         ELSE /\ consumer'.last.calls = <<"nack">>
              /\ consumer'.resultQueue = consumer.resultQueue
              /\ consumer'.taskQueue = consumer.taskQueue]_vars

C37_Witness ==
  /\ consumer.last.queue = "task_queue"
  /\ consumer.last.handler = "threw"
  /\ consumer.last.calls = <<"nack">>
  /\ consumer.taskQueue # <<>>
  /\ Head(consumer.taskQueue) = "object"

\* C38: while the current socket of a WSClient is open, its heartbeat timer
\* is running, also after the close event of an earlier socket.
C38_HeartbeatRunsWhileSocketOpen ==
  (wsClient.kind = "WSClient" /\ wsClient.socket = "OPEN") => wsClient.heartbeatTimer

\* The client's current connection is in some user's connection set.
CurrentRegistered ==
  \E u \in DOMAIN session.userConnections :
    current(session) \in Range(session.userConnections[u])

\* The claim as stated: whenever the client's flag is set, the server side
\* of its current connection is authenticated and registered.
C39_ClientFlagImpliesServerRegistered ==
  session.client.authenticated =>
    /\ current(session) >= 1
    /\ session.srv[current(session)].authenticated
    /\ CurrentRegistered

\* C39: whenever the client's authenticated flag is set, the server has
\* authenticated the client's current connection, and as long as the server
\* has not closed that connection it is in a user's connection set.
C39_ClientFlagImpliesServerAuthenticated ==
  session.client.authenticated =>
    /\ current(session) >= 1
    /\ session.srv[current(session)].authenticated
    /\ session.srv[current(session)].ws = "OPEN" => CurrentRegistered

C39_Witness ==
  /\ session.client.authenticated
  /\ session.client.socket = "OPEN"
  /\ current(session) = 2
  /\ session.srv[2].ws = "OPEN"
  /\ CurrentRegistered
  /\ session.srv[1].authenticated

\* A call of WSClient.requestData that returned false (nothing was sent)
\* for a request id that had no entry before the call.
RequestRefusedStep ==
  /\ wsClient.kind = "WSClient"
  /\ clientObs'.kind = "requestData"
  /\ clientObs'.frame.requestId \notin DOMAIN wsClient.requestCallbacks
  /\ clientObs'.sent = <<>>

\* C40: when WSClient.requestData returns false, no request_data frame was
\* sent and no entry for the request id is left in requestCallbacks.
C40_NoEntryLeftWhenRequestDataFails ==
  [][RequestRefusedStep =>
       clientObs'.frame.requestId \notin DOMAIN wsClient'.requestCallbacks]_vars

====
